---- MODULE Spec2Model ----
(***************************************************************************)
(* Model of the lost-knowledge minigame engines.                           *)
(*                                                                         *)
(*   ConstellationGame (src/constellation.js): the click/drag edge engine. *)
(*   Slide puzzle (src/unnamed/part_001, lines 1-771): the 3x4 board, the  *)
(*   move-based shuffle, the key handler and its tile animations.          *)
(*                                                                         *)
(* Each engine has its own specification (SpecConstellation, SpecPuzzle):  *)
(* the engines share no state, so each is explored with the other at rest. *)
(***************************************************************************)
EXTENDS Integers, Sequences, FiniteSets, TLC

(***************************************************************************)
(* Bounds of the model.                                                    *)
(***************************************************************************)
\* stars of a level sample (sample.stars.length)
NumStars == 3
\* colliders one ray can intersect (length of a raycast result)
MaxHits == 2
\* THREE.Line objects the engine may create for segments
MaxLines == 2
\* invocations of the completion callback that are followed
MaxCompletions == 2
\* random moves of one shuffle burst (the program passes SHUFFLE_MOVES = 80)
ShuffleMoves == 2
\* bursts of one scramble (the program runs 10)
ShuffleBursts == 1
\* tile moves applied to the board since init() built it that are followed
MaxMoves == 9
\* keydown listeners show() may leave attached
MaxListeners == 2
\* angle steps of one revolution of the helix
Turn == 3
\* the largest distance from the helix axis a movement target is taken at
MaxReach == 5
\* the longest frame delta, in ticks of 125 ms
MaxDt == 17
\* the largest |helix.offsetY| that is followed, in height steps
MaxOffset == 17
\* the largest distance of camera.y from its start that is followed
MaxAltitude == 17
\* frames in which Q or E changes helix.offsetY that are followed
MaxClimbs == 1
\* frames processed before the wrap-ready timer fires that are followed
MaxEarlyFrames == 1
\* keys of SOUND_MAP that are followed (the program has 4)
NumSounds == 3
\* play promises of one audio element that may be unsettled at once
MaxPending == 2
\* keys of NARRATOR_MAP that are followed (the program has 6)
NumClips == 2
\* audio elements NarratorManager.play() builds that are followed
MaxClips == 3

(***************************************************************************)
(* ConstellationGame                                                       *)
(***************************************************************************)
\* part_001:28-29
ROWS == 3
COLS == 4

VARIABLES
  cg,        \* the ConstellationGame object (the fields of `this`)
  gesture,   \* history: the last gesture (its pointer-down star, matchedEdges at
             \* that pointer-down, the edges its pointer-up validated)
  lastEvent  \* history: the handler that ran last, and the branch it took

cvars == <<cg, gesture, lastEvent>>

VARIABLES
  pz,        \* the module state of the slide puzzle (_board, _tileMeshes,
             \* _animating, _active, _controlsInverted, the scene flags, the
             \* attached key listeners and the animations in flight)
  pzEvent    \* history: the last puzzle event and its argument

pvars == <<pz, pzEvent>>

VARIABLES
  hx,        \* the helix walk of the tower scene: the camera position, the
             \* helix record (lastTheta, offsetY, _lastWrapTime), the load
             \* and wrap-ready flags and the clocks
  hxFrame    \* history: the last helix event, and for a frame the branch
             \* constrainCameraToHelix took

hvars == <<hx, hxFrame>>

VARIABLES
  am,        \* AudioManager: _activeKeys, the audio elements of _audioEls and
             \* the play promises that are not settled yet
  amEvent    \* history: the last AudioManager event, the value play()
             \* returned and the sounds that could be heard before it

avars == <<am, amEvent>>

VARIABLES
  nm,        \* NarratorManager: _currentAudio, _currentKey and the audio
             \* elements play() has built
  nmEvent    \* history: the last NarratorManager event, the value play()
             \* returned and the clips that could be heard before it

nvars == <<nm, nmEvent>>

vars == <<cg, gesture, lastEvent, pz, pzEvent, hx, hxFrame, am, amEvent, nm, nmEvent>>

Stars == 0 .. (NumStars - 1)

\* constellation.js:67 -- never set anywhere else; CREATION_DISABLED (line 5) is true
creationMode == FALSE

\* _edgeKey(a,b): the key 'min-max' of an unordered pair, modelled as <<min, max>>
\* mutant: the key keeps the order the two indices were given in
_edgeKey_Ordered(a, b) == <<a, b>>

_edgeKey(a, b) == IF a < b THEN <<a, b>> ELSE <<b, a>>

Range(s) == { s[i] : i \in 1 .. Len(s) }

\* arr[arr.length-1] as a list of at most one element: <<>> is undefined
LastOf(path) == IF Len(path) = 0 THEN <<>> ELSE <<path[Len(path)]>>

\* level samples handed to load(): stars, required edges as index pairs in the
\* order the level file lists them, and the shooting star indices
SampleEdges ==
  { <<>>,
    << <<0, 1>> >>,
    << <<1, 0>>, <<1, 2>> >> }

SampleShooting == { {}, {2} }

\* raycaster.intersectObjects(colliders): the colliders hit, nearest first
HitLists ==
  { h \in UNION { [1 .. n -> Stars] : n \in 0 .. MaxHits } :
      \A i, j \in 1 .. Len(h) : i # j => h[i] # h[j] }

\* the object built by the constructor (constellation.js:20-73)
Constructed ==
  [ loaded |-> FALSE,
    stars |-> <<>>,
    edges |-> {},
    permanentLines |-> <<>>,
    matchedEdges |-> {},
    dragging |-> FALSE,
    currentPath |-> <<>>,
    currentLine |-> "null",
    tempLinesThisClick |-> <<>>,
    edgesThisClick |-> <<>>,
    starsLinkedThisClick |-> <<>>,
    sceneLines |-> {},
    lineCount |-> 0,
    onCompleteCalls |-> 0 ]

\* _createSprites: one star per sample entry, then the required-edge set
_createSprites(g, n, sampleEdges, shooting) ==
  [ g EXCEPT
      !.stars = [ i \in 0 .. (n - 1) |->
                    [ linked |-> FALSE, shooting |-> (i \in shooting),
                      linkedTemp |-> FALSE ] ],
      !.edges = { _edgeKey(sampleEdges[k][1], sampleEdges[k][2]) :
                    k \in 1 .. Len(sampleEdges) } ]

\* load(sample): reset matchedEdges, build the stars, attach the listeners
load(g, n, sampleEdges, shooting) ==
  [ _createSprites([ g EXCEPT !.matchedEdges = {} ], n, sampleEdges, shooting)
      EXCEPT !.loaded = TRUE ]

\* _onComplete: delegate to the onComplete callback
_onComplete(g) == [ g EXCEPT !.onCompleteCalls = @ + 1 ]

\* mutant: completion always decided by the linked flags, the edges ignored
_checkCompletion_LinkedOnly(g) ==
  IF \A i \in DOMAIN g.stars : g.stars[i].linked THEN _onComplete(g) ELSE g

\* _checkCompletion
_checkCompletion(g) ==
  IF Cardinality(g.edges) > 0
    THEN IF \A e \in g.edges : e \in g.matchedEdges THEN _onComplete(g) ELSE g
    ELSE IF \A i \in DOMAIN g.stars : g.stars[i].linked THEN _onComplete(g) ELSE g

\* _dropCurrentClick
_dropCurrentClick(g) ==
  [ g EXCEPT
      !.currentLine = "null",
      !.sceneLines = @ \ { g.tempLinesThisClick[k].id :
                             k \in 1 .. Len(g.tempLinesThisClick) },
      !.tempLinesThisClick = <<>>,
      !.stars = [ i \in DOMAIN g.stars |->
                    IF i \in Range(g.starsLinkedThisClick)
                      THEN [ g.stars[i] EXCEPT !.linkedTemp = FALSE ]
                      ELSE g.stars[i] ],
      !.starsLinkedThisClick = <<>>,
      !.edgesThisClick = <<>>,
      !.currentPath = <<>> ]

\* _commitTempLines
_commitTempLines(g) ==
  _checkCompletion(
    [ g EXCEPT
        !.permanentLines = @ \o g.tempLinesThisClick,
        !.edges = IF creationMode THEN @ \cup Range(g.edgesThisClick) ELSE @,
        !.matchedEdges = @ \cup Range(g.edgesThisClick),
        !.stars = [ i \in DOMAIN g.stars |->
                      IF i \in Range(g.starsLinkedThisClick)
                        THEN [ g.stars[i] EXCEPT !.linked = TRUE, !.linkedTemp = FALSE ]
                        ELSE g.stars[i] ],
        !.tempLinesThisClick = <<>>,
        !.edgesThisClick = <<>>,
        !.starsLinkedThisClick = <<>>,
        !.currentLine = "null",
        !.currentPath = <<>> ])

\* the temporary-link marking of one star in _finalizeSegmentAndStartNew
MarkLinkedTemp(g, idx) ==
  IF g.stars[idx].linkedTemp
    THEN g
    ELSE [ g EXCEPT !.stars[idx].linkedTemp = TRUE,
                    !.starsLinkedThisClick = Append(@, idx) ]

\* _finalizeSegmentAndStartNew(aIdx, bIdx); this.stars[undefined].pos throws a
\* TypeError before anything is changed
_finalizeSegmentAndStartNew(g, a, bIdx) ==
  IF a = <<>>
    THEN g
    ELSE
      LET aIdx == a[1]
          line == [ id |-> g.lineCount, a |-> aIdx, b |-> bIdx ]
          g1 == [ g EXCEPT
                    !.lineCount = @ + 1,
                    !.sceneLines = @ \cup { line.id },
                    !.tempLinesThisClick = Append(@, line),
                    !.edgesThisClick = Append(@, _edgeKey(aIdx, bIdx)) ]
          g2 == MarkLinkedTemp(MarkLinkedTemp(g1, aIdx), bIdx)
      IN [ g2 EXCEPT !.currentLine = "line", !.currentPath = <<bIdx>> ]

\* mutant: a pointer-down on a shooting star starts an ordinary drag
_onPointerDown_NoShootingDrop(g, hits) ==
  IF Len(hits) = 0
    THEN g
    ELSE [ g EXCEPT
             !.dragging = TRUE,
             !.currentPath = <<hits[1]>>,
             !.tempLinesThisClick = <<>>,
             !.edgesThisClick = <<>>,
             !.starsLinkedThisClick = <<>>,
             !.currentLine = "line" ]

\* _onPointerDown with the raycast result `hits`
_onPointerDown(g, hits) ==
  IF Len(hits) = 0
    THEN g
    ELSE
      LET idx == hits[1]
          g1 == [ g EXCEPT
                    !.dragging = TRUE,
                    !.currentPath = <<idx>>,
                    !.tempLinesThisClick = <<>>,
                    !.edgesThisClick = <<>>,
                    !.starsLinkedThisClick = <<>>,
                    !.currentLine = "line" ]
      IN IF g1.stars[idx].shooting THEN _dropCurrentClick(g1) ELSE g1

\* mutant: the farthest collider that is not the anchor
FirstOther_Farthest(hits, last) ==
  LET others == { k \in 1 .. Len(hits) : <<hits[k]>> # last }
  IN IF others = {} THEN <<>>
     ELSE <<hits[CHOOSE k \in others : \A m \in others : k >= m]>>

\* the first collider in hit order that is not the star anchoring the drag
FirstOther(hits, last) ==
  LET others == { k \in 1 .. Len(hits) : <<hits[k]>> # last }
  IN IF others = {} THEN <<>>
     ELSE <<hits[CHOOSE k \in others : \A m \in others : k <= m]>>

\* _onPointerMove with the raycast result `hits`
_onPointerMove(g, hits) ==
  IF ~g.dragging
    THEN g
    ELSE
      LET last == LastOf(g.currentPath)
          idx == FirstOther(hits, last)
      IN IF idx = <<>> THEN g ELSE _finalizeSegmentAndStartNew(g, last, idx[1])

\* mutant: the validation loop looks at the first tentative edge only
BadGesture_FirstOnly(g) ==
  Len(g.edgesThisClick) > 0 /\ ~creationMode /\ g.edgesThisClick[1] \notin g.edges

\* the validation loop of _onPointerUp
BadGesture(g) ==
  \E k \in 1 .. Len(g.edgesThisClick) :
    ~creationMode /\ g.edgesThisClick[k] \notin g.edges

\* mutant: partial credit, the required edges of an invalid gesture are kept
_onPointerUp_PartialCredit(g) ==
  IF ~g.dragging
    THEN g
    ELSE
      LET g1 == [ g EXCEPT !.dragging = FALSE ]
          keep == { k \in 1 .. Len(g.edgesThisClick) : g.edgesThisClick[k] \in g.edges }
      IN IF BadGesture(g1)
           THEN _dropCurrentClick(
                  [ g1 EXCEPT !.matchedEdges = @ \cup { g.edgesThisClick[k] : k \in keep } ])
           ELSE _commitTempLines(g1)

\* _onPointerUp
_onPointerUp(g) ==
  IF ~g.dragging
    THEN g
    ELSE
      LET g1 == [ g EXCEPT !.dragging = FALSE ]
      IN IF BadGesture(g1) THEN _dropCurrentClick(g1) ELSE _commitTempLines(g1)

\* mutant: the button forgets the matched edges with the lines
_clearAllLines_ForgetsMatched(g) ==
  [ g EXCEPT
      !.sceneLines = @ \ { g.permanentLines[k].id : k \in 1 .. Len(g.permanentLines) },
      !.permanentLines = <<>>,
      !.matchedEdges = {},
      !.stars = [ i \in DOMAIN g.stars |-> [ g.stars[i] EXCEPT !.linked = FALSE ] ] ]

\* _clearAllLines, run by the 'Show constellation' button
_clearAllLines(g) ==
  [ g EXCEPT
      !.sceneLines = @ \ { g.permanentLines[k].id : k \in 1 .. Len(g.permanentLines) },
      !.permanentLines = <<>>,
      !.stars = [ i \in DOMAIN g.stars |-> [ g.stars[i] EXCEPT !.linked = FALSE ] ] ]

(***************************************************************************)
(* Slide puzzle (src/unnamed/part_001)                                     *)
(***************************************************************************)
Rows == 0 .. (ROWS - 1)
Cols == 0 .. (COLS - 1)
Dirs == { "U", "D", "L", "R" }

\* _createEmptyBoard: 1, 2, ... row by row, the last cell blank
_createEmptyBoard ==
  [ r \in Rows |-> [ c \in Cols |->
      IF r = ROWS - 1 /\ c = COLS - 1 THEN 0 ELSE r * COLS + c + 1 ] ]

\* _findBlank: the first cell holding 0 in row-major order, as a list of at
\* most one cell (<<>> is null)
_findBlank(board) ==
  LET zeros == { rc \in Rows \X Cols : board[rc[1]][rc[2]] = 0 }
  IN IF zeros = {} THEN <<>>
     ELSE LET z == CHOOSE z \in zeros :
                     \A y \in zeros : z[1] * COLS + z[2] <= y[1] * COLS + y[2]
          IN << [ r |-> z[1], c |-> z[2] ] >>

\* mutant: U takes the tile below the blank and D the tile above it
SourceCell_UpsideDown(blank, dir) ==
  [ r |-> blank.r + (IF dir = "U" THEN 1 ELSE IF dir = "D" THEN -1 ELSE 0),
    c |-> blank.c + (IF dir = "L" THEN -1 ELSE IF dir = "R" THEN 1 ELSE 0) ]

\* the source cell of a move: the neighbour of the blank the tile comes from
SourceCell(blank, dir) ==
  [ r |-> blank.r + (IF dir = "U" THEN -1 ELSE IF dir = "D" THEN 1 ELSE 0),
    c |-> blank.c + (IF dir = "L" THEN -1 ELSE IF dir = "R" THEN 1 ELSE 0) ]

\* sr>=0 && sr<ROWS && sc>=0 && sc<COLS
InGrid(cell) == cell.r >= 0 /\ cell.r < ROWS /\ cell.c >= 0 /\ cell.c < COLS

\* _canMove(board, r, c, dir); r and c are not used by the code
_canMove(board, dir) ==
  LET blank == _findBlank(board)
  IN IF blank = <<>> THEN FALSE ELSE InGrid(SourceCell(blank[1], dir))

\* mutant: the tile is copied into the blank cell and the source cell keeps it
_applyMove_KeepsSource(board, dir) ==
  LET blank == _findBlank(board)
  IN IF blank = <<>> THEN [ moved |-> FALSE, board |-> board ]
     ELSE LET s == SourceCell(blank[1], dir)
          IN IF ~InGrid(s) THEN [ moved |-> FALSE, board |-> board ]
             ELSE [ moved |-> TRUE,
                    board |-> [ board EXCEPT ![blank[1].r][blank[1].c] = board[s.r][s.c] ] ]

\* mutant: the source row and column are clamped into the grid, not rejected
_applyMove_Clamped(board, dir) ==
  LET blank == _findBlank(board)
  IN IF blank = <<>> THEN [ moved |-> FALSE, board |-> board ]
     ELSE LET s == SourceCell(blank[1], dir)
              t == [ r |-> IF s.r < 0 THEN 1 ELSE IF s.r >= ROWS THEN ROWS - 2 ELSE s.r,
                     c |-> IF s.c < 0 THEN 1 ELSE IF s.c >= COLS THEN COLS - 2 ELSE s.c ]
          IN [ moved |-> TRUE,
               board |-> [ board EXCEPT ![blank[1].r][blank[1].c] = board[t.r][t.c],
                                        ![t.r][t.c] = 0 ] ]

\* _applyMove(board, dir): the board after the call and the value returned
_applyMove(board, dir) ==
  CHOOSE result \in
    { IF blank = <<>> THEN [ moved |-> FALSE, board |-> board ]
      ELSE LET s == SourceCell(blank[1], dir)
           IN IF ~InGrid(s) THEN [ moved |-> FALSE, board |-> board ]
              ELSE [ moved |-> TRUE,
                     board |-> [ board EXCEPT ![blank[1].r][blank[1].c] = board[s.r][s.c],
                                              ![s.r][s.c] = 0 ] ] :
      blank \in { _findBlank(board) } } : TRUE

\* _boardToIndexArray: the board flattened row by row
_boardToIndexArray(board) ==
  [ i \in 1 .. (ROWS * COLS) |-> board[(i - 1) \div COLS][(i - 1) % COLS] ]

\* mutant: only the first row is compared
_isSolved_FirstRow(board) ==
  LET flat == _boardToIndexArray(board)
  IN \A i \in 1 .. COLS : flat[i] = (i - 1) + 1

\* _isSolved
_isSolved(board) ==
  \A flat \in { _boardToIndexArray(board) } :
    \A i \in 1 .. Len(flat) :
      IF i - 1 = Len(flat) - 1 THEN flat[i] = 0 ELSE flat[i] = (i - 1) + 1

\* mutant: the draw is among all four directions, and the tile slides in from
\* the far side of the row or column when the neighbour is off the grid
RandomMove_AnyDirection(board) ==
  { LET blank == _findBlank(board)[1]
        s == SourceCell(blank, d)
        t == [ r |-> s.r % ROWS, c |-> s.c % COLS ]
    IN [ board EXCEPT ![blank.r][blank.c] = board[t.r][t.c], ![t.r][t.c] = 0 ] :
    d \in Dirs }

\* one round of the loop of _shuffleByMoves: the boards a draw of a random
\* legal direction and its _applyMove can leave
RandomMove(board) ==
  LET legal == { d \in Dirs : _canMove(board, d) }
  IN IF legal = {} THEN { board }
     ELSE { _applyMove(board, d).board : d \in legal }

RECURSIVE _shuffleByMoves(_, _)
\* _shuffleByMoves(board, moves), from each board of a set: the boards `moves`
\* draws can leave
_shuffleByMoves(boards, moves) ==
  IF moves = 0 THEN boards
  ELSE _shuffleByMoves({ next : next \in UNION { RandomMove(b) : b \in boards } },
                       moves - 1)

\* the first direction of the list that _applyMove accepts, as a list of at
\* most one direction
FirstApplicable(board, dirs) ==
  LET ok == { k \in 1 .. Len(dirs) : _applyMove(board, dirs[k]).moved }
  IN IF ok = {} THEN <<>> ELSE << dirs[CHOOSE k \in ok : \A m \in ok : k <= m] >>

RECURSIVE SeekLoop(_, _, _)
\* the while loop of _minimalMovesToBottomRight; safety is its counter
SeekLoop(board, steps, safety) ==
  LET blank == _findBlank(board)
      stop == [ board |-> board, steps |-> steps, capped |-> FALSE,
                fallback |-> FALSE ]
  IN IF safety + 1 > ROWS * COLS * 50
       THEN [ stop EXCEPT !.capped = TRUE ]
     ELSE IF blank = <<>> THEN stop
     ELSE IF blank[1].r = ROWS - 1 /\ blank[1].c = COLS - 1 THEN stop
     ELSE IF blank[1].r < ROWS - 1 /\ _applyMove(board, "D").moved
       THEN SeekLoop(_applyMove(board, "D").board, Append(steps, "D"), safety + 1)
     ELSE IF blank[1].c < COLS - 1 /\ _applyMove(board, "R").moved
       THEN SeekLoop(_applyMove(board, "R").board, Append(steps, "R"), safety + 1)
     ELSE LET d == FirstApplicable(board, << "D", "R", "U", "L" >>)
          IN IF d = <<>> THEN stop
             ELSE [ SeekLoop(_applyMove(board, d[1]).board, Append(steps, d[1]),
                             safety + 1) EXCEPT !.fallback = TRUE ]

\* _minimalMovesToBottomRight(board): the board after the call and the steps
_minimalMovesToBottomRight_Stays(board) ==
  [ board |-> board, steps |-> <<>>, capped |-> FALSE, fallback |-> FALSE ]

_minimalMovesToBottomRight(board) == SeekLoop(board, <<>>, 0)

RECURSIVE ShuffleBurstsFrom(_, _)
\* for (i = 0; i < bursts; i++) _shuffleByMoves(_board, SHUFFLE_MOVES)
ShuffleBurstsFrom(boards, bursts) ==
  IF bursts = 0 THEN boards
  ELSE ShuffleBurstsFrom(_shuffleByMoves(boards, ShuffleMoves), bursts - 1)

\* _renderBoard: one mesh per cell, the mesh of the tile value found there
\* (0: the transparent blank mesh). A mesh is named by the tile it shows.
_renderBoard(board) == board

\* random moves of one scramble
ScrambleMoves == ShuffleBursts * ShuffleMoves

\* the scramble of init() and of the R key and button: the bursts, the blank
\* re-seek, then a render
Scrambles(p) ==
  { LET seek == _minimalMovesToBottomRight(b)
    IN [ p EXCEPT !.board = seek.board,
                  !.tileMeshes = _renderBoard(seek.board),
                  !.moves = @ + ScrambleMoves + Len(seek.steps) ] :
    b \in ShuffleBurstsFrom({ p.board }, ShuffleBursts) }

\* the module before init(): no board, nothing attached. `listeners` counts the
\* keydown listeners on window, `anims` lists the animation promises pending,
\* `moves` counts the tile moves applied or started since the solved board
ModuleLoaded ==
  [ inited |-> FALSE,
    board |-> <<>>,
    tileMeshes |-> <<>>,
    animating |-> FALSE,
    active |-> FALSE,
    controlsInverted |-> TRUE,
    puzzleState |-> "none",
    puzzleSolved |-> FALSE,
    keyHandler |-> FALSE,
    listeners |-> 0,
    anims |-> <<>>,
    moves |-> 0 ]

\* init(): solved board, render, puzzleState 'loaded', scramble
init(p) ==
  Scrambles([ p EXCEPT !.inited = TRUE,
                       !.board = _createEmptyBoard,
                       !.tileMeshes = _renderBoard(_createEmptyBoard),
                       !.puzzleState = "loaded" ])


\* show(): needs _scene and _group (set by init); activates the puzzle and
\* attaches a new keydown listener, remembered in window._slidePuzzle_keyHandler
show(p) ==
  IF ~p.inited THEN p
  ELSE [ p EXCEPT !.active = TRUE,
                  !.puzzleState = "active",
                  !.keyHandler = TRUE,
                  !.listeners = @ + 1 ]

\* the solved test hide() computes for itself
solved(board) ==
  LET flat == _boardToIndexArray(board)
  IN \A i \in 1 .. Len(flat) :
       IF i - 1 = Len(flat) - 1 THEN flat[i] = 0 ELSE flat[i] = (i - 1) + 1

\* mutant: hide() drops the animation in flight and releases the lock
hide_CancelsSlide(p) ==
  [ p EXCEPT !.active = FALSE,
             !.keyHandler = FALSE,
             !.listeners = IF p.keyHandler THEN @ - 1 ELSE @,
             !.anims = <<>>,
             !.animating = FALSE ]

\* hide(): deactivates, detaches the remembered listener, and settles the
\* scene flags with its own solved test
hide(p) ==
  LET p1 == [ p EXCEPT !.active = FALSE,
                       !.keyHandler = FALSE,
                       !.listeners = IF p.keyHandler THEN @ - 1 ELSE @ ]
  IN IF ~p.inited THEN p1
     ELSE
       LET p2 == [ p1 EXCEPT !.puzzleState =
                               IF @ # "finished" THEN "loaded" ELSE "finished" ]
       IN IF solved(p2.board)
            THEN [ p2 EXCEPT !.puzzleSolved = TRUE, !.puzzleState = "finished" ]
            ELSE p2

\* toggle()
toggle(p) == IF p.active THEN hide(p) ELSE show(p)

\* mutant: the inversion flag swaps left and right only
DirOfKey_LeftRightOnly(code, inverted) ==
  IF code = "ArrowUp" THEN "U"
  ELSE IF code = "ArrowDown" THEN "D"
  ELSE IF code = "ArrowLeft" THEN (IF inverted THEN "R" ELSE "L")
  ELSE IF code = "ArrowRight" THEN (IF inverted THEN "L" ELSE "R")
  ELSE "null"

\* the arrow-key mapping of the key handler; "null" for any other key
DirOfKey(code, inverted) ==
  IF code = "ArrowUp" THEN (IF inverted THEN "D" ELSE "U")
  ELSE IF code = "ArrowDown" THEN (IF inverted THEN "U" ELSE "D")
  ELSE IF code = "ArrowLeft" THEN (IF inverted THEN "R" ELSE "L")
  ELSE IF code = "ArrowRight" THEN (IF inverted THEN "L" ELSE "R")
  ELSE "null"

\* dirVec of the illegal branch
DirVec(dir) ==
  IF dir = "U" THEN <<-1, 0>>
  ELSE IF dir = "D" THEN <<1, 0>>
  ELSE IF dir = "L" THEN <<0, -1>>
  ELSE IF dir = "R" THEN <<0, 1>>
  ELSE <<0, 0>>

\* mutant: the orthogonal neighbours are tried before the opposite cell
QuiverTarget_OrthogonalFirst(board, blank, dir) ==
  LET v == DirVec(dir)
      opp == [ r |-> blank.r - v[1], c |-> blank.c - v[2] ]
      orth == IF dir \in { "L", "R" } THEN << <<-1, 0>>, <<1, 0>> >>
                                      ELSE << <<0, -1>>, <<0, 1>> >>
      cell(k) == [ r |-> blank.r + orth[k][1], c |-> blank.c + orth[k][2] ]
      Cand(x) == InGrid(x) /\ board[x.r][x.c] # 0
      ok == { k \in 1 .. 2 : Cand(cell(k)) }
  IN IF ok # {} THEN << cell(CHOOSE k \in ok : \A m \in ok : k <= m) >>
     ELSE IF Cand(opp) THEN << opp >>
     ELSE <<>>

\* the tile chosen to quiver on an illegal move, as a list of at most one
\* cell: the source cell, else the opposite cell, else the first orthogonal
\* neighbour, each only if inside the grid and not the blank (every cell of
\* _tileMeshes holds a mesh once _renderBoard has run)
QuiverTarget(board, blank, dir) ==
  LET s == SourceCell(blank, dir)
      v == DirVec(dir)
      opp == [ r |-> blank.r - v[1], c |-> blank.c - v[2] ]
      orth == IF dir \in { "L", "R" } THEN << <<-1, 0>>, <<1, 0>> >>
                                      ELSE << <<0, -1>>, <<0, 1>> >>
      cell(k) == [ r |-> blank.r + orth[k][1], c |-> blank.c + orth[k][2] ]
      Cand(x) == InGrid(x) /\ board[x.r][x.c] # 0
      ok == { k \in 1 .. 2 : Cand(cell(k)) }
  IN IF Cand(s) THEN << s >>
     ELSE IF Cand(opp) THEN << opp >>
     ELSE IF ok # {} THEN << cell(CHOOSE k \in ok : \A m \in ok : k <= m) >>
     ELSE <<>>

\* an animation in flight: the promise and the values its completion closes over
Quiver(mesh) ==
  [ kind |-> "quiver", dir |-> "null", blank |-> <<>>, src |-> <<>>,
    mesh |-> mesh, blankMesh |-> mesh ]
Slide(dir, blank, src, mesh, blankMesh) ==
  [ kind |-> "slide", dir |-> dir, blank |-> <<blank>>, src |-> <<src>>,
    mesh |-> mesh, blankMesh |-> blankMesh ]
Fade(mesh) ==
  [ kind |-> "fade", dir |-> "null", blank |-> <<>>, src |-> <<>>,
    mesh |-> mesh, blankMesh |-> mesh ]

\* the arrow-key part of the key handler, in direction dir
ArrowMove(p, dir) ==
  LET blank == _findBlank(p.board)
  IN IF blank = <<>> THEN p
     ELSE
       LET s == SourceCell(blank[1], dir)
       IN IF ~InGrid(s)
            THEN LET q == QuiverTarget(p.board, blank[1], dir)
                 IN IF q = <<>> THEN p
                    ELSE [ p EXCEPT
                             !.animating = TRUE,
                             !.anims = Append(@, Quiver(p.tileMeshes[q[1].r][q[1].c])) ]
            ELSE [ p EXCEPT
                     !.animating = TRUE,
                     !.moves = @ + 1,
                     !.anims = Append(@, Slide(dir, blank[1], s,
                                               p.tileMeshes[s.r][s.c],
                                               p.tileMeshes[blank[1].r][blank[1].c])) ]

\* mutant: the key handler without its _animating test
_slidePuzzle_keyHandler_NoLock(p, code) ==
  IF ~p.active THEN { p }
  ELSE IF code = "KeyR" THEN Scrambles(p)
  ELSE IF code = "KeyI" THEN { [ p EXCEPT !.controlsInverted = ~@ ] }
  ELSE IF DirOfKey(code, p.controlsInverted) = "null" THEN { p }
  ELSE { ArrowMove(p, DirOfKey(code, p.controlsInverted)) }

\* window._slidePuzzle_keyHandler(e): the states one run of the handler can
\* leave (the scramble draws at random)
_slidePuzzle_keyHandler(p, code) ==
  IF ~p.active THEN { p }
  ELSE IF p.animating THEN { p }
  ELSE IF code = "KeyR" THEN Scrambles(p)
  ELSE IF code = "KeyI" THEN { [ p EXCEPT !.controlsInverted = ~@ ] }
  ELSE IF DirOfKey(code, p.controlsInverted) = "null" THEN { p }
  ELSE { ArrowMove(p, DirOfKey(code, p.controlsInverted)) }

RECURSIVE Dispatch(_, _, _)
\* a keydown event runs every attached listener in turn
Dispatch(ps, code, n) ==
  IF n = 0 THEN ps
  ELSE Dispatch({ next : next \in UNION { _slidePuzzle_keyHandler(q, code) : q \in ps } },
                code, n - 1)

\* the click handler of the shuffle button
ShuffleClick(p) == IF p.animating THEN { p } ELSE Scrambles(p)

\* the click handler of the invert button
InvertClick(p) == [ p EXCEPT !.controlsInverted = ~@ ]

\* the list without its k-th element
RemoveAt(seq, k) == SubSeq(seq, 1, k - 1) \o SubSeq(seq, k + 1, Len(seq))

\* the mesh _fadeInBlank creates for the final tile
FinalMesh == ROWS * COLS

\* _fadeInBlank up to its first animation frame: the final mesh is placed
\* over the blank cell and the fade starts
_fadeInBlank(p) ==
  LET blank == _findBlank(p.board)
  IN IF blank = <<>> THEN [ p EXCEPT !.anims = Append(@, Fade(FinalMesh)) ]
     ELSE [ p EXCEPT !.tileMeshes[blank[1].r][blank[1].c] = FinalMesh,
                     !.anims = Append(@, Fade(FinalMesh)) ]

\* mutant: the continuation applies the move and leaves the tracking grid
SlideDone_NoSwap(p, a) ==
  CHOOSE done \in
    { IF _isSolved(p1.board)
        THEN _fadeInBlank([ p1 EXCEPT !.animating = TRUE ])
        ELSE p1 :
      p1 \in { [ p EXCEPT !.board = mv.board, !.animating = FALSE ] :
                 mv \in { _applyMove(p.board, a.dir) } } } : TRUE

\* the continuation of the slide promise: swap the meshes, apply the move,
\* release the lock, and start the solved flow when the board is solved
SlideDone(p, a) ==
  CHOOSE done \in
    { IF _isSolved(p1.board)
        THEN _fadeInBlank([ p1 EXCEPT !.animating = TRUE ])
        ELSE p1 :
      p1 \in { [ p EXCEPT
                   !.tileMeshes = [ @ EXCEPT ![a.blank[1].r][a.blank[1].c] = a.mesh,
                                             ![a.src[1].r][a.src[1].c] = a.blankMesh ],
                   !.board = mv.board,
                   !.animating = FALSE ] :
                 mv \in { _applyMove(p.board, a.dir) } } } : TRUE

\* the rest of the solved flow, after the fade
FadeDone(p) ==
  [ p EXCEPT !.puzzleSolved = TRUE,
             !.puzzleState = "finished",
             !.listeners = IF p.keyHandler THEN @ - 1 ELSE @,
             !.keyHandler = FALSE,
             !.active = FALSE,
             !.animating = FALSE ]

\* mutant: the quiver ends without releasing the lock
QuiverDone_KeepsLock(p) == p

\* the continuation of the quiver promise
QuiverDone(p) == [ p EXCEPT !.animating = FALSE ]

\* the k-th animation in flight finishes and its continuation runs
AnimationDone(p, k) ==
  CHOOSE done \in
    { IF a.kind = "quiver" THEN QuiverDone(p1)
      ELSE IF a.kind = "slide" THEN SlideDone(p1, a)
      ELSE FadeDone(p1) :
      a \in { p.anims[k] },
      p1 \in { [ p EXCEPT !.anims = RemoveAt(@, k) ] } } : TRUE

(***************************************************************************)
(* Puzzle events.                                                          *)
(***************************************************************************)
NoEvent == "none"

\* the kind of input a key is: an arrow, the shuffle key R, the invert key I
InputOfKey(code) ==
  IF code = "KeyR" THEN "shuffle" ELSE IF code = "KeyI" THEN "invert" ELSE "arrow"

KeyCodes == { "ArrowUp", "ArrowDown", "ArrowLeft", "ArrowRight", "KeyR", "KeyI" }

Initialize ==
  /\ ~pz.inited
  /\ pz' \in init(pz)
  /\ pz'.moves <= MaxMoves
  /\ pzEvent' = "init"
  /\ UNCHANGED <<cvars, hvars, avars, nvars>>

Show ==
  /\ pz.listeners < MaxListeners
  /\ pz' = show(pz)
  /\ pzEvent' = "show"
  /\ UNCHANGED <<cvars, hvars, avars, nvars>>

Hide ==
  /\ pz' = hide(pz)
  /\ pzEvent' = "hide"
  /\ UNCHANGED <<cvars, hvars, avars, nvars>>

Toggle ==
  /\ pz.active \/ pz.listeners < MaxListeners
  /\ pz' = toggle(pz)
  /\ pzEvent' = "toggle"
  /\ UNCHANGED <<cvars, hvars, avars, nvars>>

KeyDown ==
  /\ \E code \in KeyCodes :
       /\ (code = "KeyR" /\ pz.active /\ ~pz.animating)
            => pz.moves + pz.listeners * ScrambleMoves <= MaxMoves
       /\ pz' \in Dispatch({ pz }, code, pz.listeners)
       /\ pzEvent' = InputOfKey(code)
  /\ pz'.moves <= MaxMoves
  /\ UNCHANGED <<cvars, hvars, avars, nvars>>

ClickShuffle ==
  /\ pz.active
  /\ ~pz.animating => pz.moves + ScrambleMoves <= MaxMoves
  /\ pz' \in ShuffleClick(pz)
  /\ pz'.moves <= MaxMoves
  /\ pzEvent' = "shuffle"
  /\ UNCHANGED <<cvars, hvars, avars, nvars>>

ClickInvert ==
  /\ pz.active
  /\ pz' = InvertClick(pz)
  /\ pzEvent' = "invert"
  /\ UNCHANGED <<cvars, hvars, avars, nvars>>

AnimationFrame ==
  /\ \E k \in 1 .. Len(pz.anims) :
       /\ pz' = AnimationDone(pz, k)
       /\ pzEvent' = pz.anims[k].kind
  /\ UNCHANGED <<cvars, hvars, avars, nvars>>

PNext ==
  \/ Initialize
  \/ Show
  \/ Hide
  \/ Toggle
  \/ KeyDown
  \/ ClickShuffle
  \/ ClickInvert
  \/ AnimationFrame

(***************************************************************************)
(* The helix walk of the tower scene (main.js).  Angles are counted in     *)
(* steps of 1/Turn of a revolution, heights in steps of pitch/Turn, time   *)
(* in ticks of 125 ms and horizontal distances in thirds of helix.radius.  *)
(* A horizontal position is kept relative to helix.center in polar form.   *)
(***************************************************************************)
\* helix.pitch (main.js:295): the rise of one revolution, Turn height steps
Pitch == Turn
\* helix.radius (main.js:299) and helix.thickness / 2 (main.js:259)
Radius == 3
HalfThickness == 1
\* helix.baseY after placeTowerAndStairs (main.js:596-598): the height origin
BaseY == 0
\* helix.inverted (main.js:267)
inverted == TRUE
\* helix.wrapCooldown (main.js:271): 250 ms
wrapCooldown == 2
\* the delay of the wrap-ready timer and of the guard on wrapReadyAt: 1000 ms
ReadyDelay == 8
\* speed * dt of one tick in height steps (main.js:356)
ClimbPerTick == 1
\* the camera position initScene() sets (main.js:46): outside the band,
\* between two rungs of the helix
StartRadius == 5
StartAngle == 2
StartY == 13
\* helix.lastTheta after the calibration block (main.js:297)
CalibratedTheta == 0 - 16

Min(a, b) == IF a < b THEN a ELSE b
Max(a, b) == IF a > b THEN a ELSE b
Abs(a) == IF a < 0 THEN 0 - a ELSE a

\* Math.round(a / b) for b > 0: the nearest integer, a half rounds up
Round(a, b) == (2 * a + b) \div (2 * b)

\* Math.atan2(dz, dx) of a horizontal offset: an angle in (-pi, pi], and 0
\* for the zero vector
Atan2(pos) ==
  IF pos.rad = 0 THEN 0
  ELSE IF 2 * pos.ang > Turn THEN pos.ang - Turn ELSE pos.ang

\* main.js:381-382, 427-428: the angle wrapped into [0, 2 pi)
WrappedTheta(pos) ==
  LET wrappedTheta == Atan2(pos)
  IN IF wrappedTheta < 0 THEN wrappedTheta + Turn ELSE wrappedTheta

\* main.js:384-385, 430-431: the branch of the wrapped angle nearest lastTheta
NearestBranch_Floor(lastTheta, wrappedTheta) ==
  wrappedTheta + ((lastTheta - wrappedTheta) \div Turn) * Turn

NearestBranch(lastTheta, wrappedTheta) ==
  wrappedTheta + Round(lastTheta - wrappedTheta, Turn) * Turn

sign == IF inverted THEN 0 - 1 ELSE 1

\* mutant: Q and E do not reach camera.y
HelixY_NoOffset(theta, offsetY) == BaseY + sign * ((theta * Pitch) \div Turn)

\* baseY + sign * (theta / 2 pi) * pitch + offsetY
HelixY(theta, offsetY) == BaseY + sign * ((theta * Pitch) \div Turn) + offsetY

rMin == Radius - HalfThickness
rMax == Radius + HalfThickness

\* Math.min(Math.max(r, rMin), rMax)
rClamped_MinOnly(r) == Max(r, rMin)

rClamped(r) == Min(Max(r, rMin), rMax)

\* center + r * (cos theta, sin theta)
OnCircle_Mirrored(r, theta) == [ rad |-> r, ang |-> (0 - theta) % Turn ]

OnCircle(r, theta) == [ rad |-> r, ang |-> theta % Turn ]

\* the theta whose helix height is y: ((y - baseY - offsetY) * 2 pi) / (sign * pitch)
desiredThetaFull(y, offsetY) == sign * (((y - BaseY - offsetY) * Turn) \div Pitch)

computeHelixLastThetaFromPosition(h, pos, y) ==
  LET wrappedTheta == WrappedTheta(pos)
      k == Round(desiredThetaFull(y, h.offsetY) - wrappedTheta, Turn)
  IN wrappedTheta + k * Turn

initHelixLastThetaFromCamera_Unsnapped(h) ==
  [ h EXCEPT !.lastTheta = desiredThetaFull(h.y, h.offsetY) ]

initHelixLastThetaFromCamera(h) ==
  [ h EXCEPT !.lastTheta = computeHelixLastThetaFromPosition(h, h.camera, h.y) ]

\* the state initScene() and the helix configuration leave
SceneCreated ==
  [ camera |-> [ rad |-> StartRadius, ang |-> StartAngle ],
    y |-> StartY,
    lastTheta |-> CalibratedTheta,
    offsetY |-> 0,
    sinceWrap |-> wrapCooldown,
    modelsLoaded |-> FALSE,
    wrapReady |-> FALSE,
    sinceReady |-> 0,
    initialHelixRef |-> <<>> ]

\* placeTowerAndStairs(): the part that anchors the helix
placeTowerAndStairs(h) ==
  LET theta == computeHelixLastThetaFromPosition(h, SceneCreated.camera, StartY)
      lastTheta == IF theta = 0 THEN h.lastTheta ELSE theta
  IN [ h EXCEPT !.lastTheta = lastTheta,
                !.initialHelixRef = << [ theta |-> lastTheta, y |-> StartY ] >>,
                !.modelsLoaded = TRUE,
                !.sinceReady = 0 ]

\* the callback of the timer placeTowerAndStairs() starts
wrapReadyTimer(h) ==
  [ h EXCEPT !.wrapReady = TRUE,
             !.sinceReady = 0,
             !.initialHelixRef = << [ h.initialHelixRef[1] EXCEPT !.y = h.y ] >> ]

\* mutant: the wrap block is open as soon as the timer has fired
WrapArmed_AtOnce(h) ==
  /\ h.initialHelixRef # <<>>
  /\ h.wrapReady

\* the guard of the wrap block: the reference exists, the timer has fired
\* and more than a second has passed since
WrapArmed(h) ==
  /\ h.initialHelixRef # <<>>
  /\ h.wrapReady
  /\ h.sinceReady > ReadyDelay

upThreshold(h) == h.initialHelixRef[1].y + 2 * Pitch
downThreshold(h) == h.initialHelixRef[1].y - 2 * Pitch

wrapAmount_TwoRings == 2 * Pitch

wrapAmount == 3 * Pitch

\* the wrap branch of constrainCameraToHelix()
Wrap_ToReference(h) ==
  LET moved == [ h EXCEPT !.y = h.initialHelixRef[1].y,
                          !.camera = SceneCreated.camera ]
      seeded == initHelixLastThetaFromCamera(moved)
  IN [ seeded EXCEPT !.y = HelixY(seeded.lastTheta, seeded.offsetY),
                     !.sinceWrap = 0 ]

Wrap(h) ==
  LET moved == [ h EXCEPT !.y = IF h.y >= upThreshold(h) THEN h.y - wrapAmount
                                ELSE h.y + wrapAmount ]
      seeded == initHelixLastThetaFromCamera(moved)
  IN [ seeded EXCEPT !.y = HelixY(seeded.lastTheta, seeded.offsetY),
                     !.sinceWrap = 0 ]

\* the normal path of constrainCameraToHelix()
Follow_KeepsY(h) ==
  LET theta == NearestBranch(h.lastTheta, WrappedTheta(h.camera))
  IN [ h EXCEPT !.lastTheta = theta,
                !.camera = OnCircle(rClamped(h.camera.rad), theta) ]

Follow(h) ==
  LET theta == NearestBranch(h.lastTheta, WrappedTheta(h.camera))
  IN [ h EXCEPT !.lastTheta = theta,
                !.camera = OnCircle(rClamped(h.camera.rad), theta),
                !.y = HelixY(theta, h.offsetY) ]

\* mutant: the cooldown is never in the way
InCooldown_Never(h) == FALSE

\* now - helix._lastWrapTime < helix.wrapCooldown
InCooldown(h) == h.sinceWrap < wrapCooldown

\* constrainCameraToHelix(): the state it leaves and the branch it took
constrainCameraToHelix(h) ==
  IF ~h.modelsLoaded THEN [ h |-> h, branch |-> "skipped" ]
  ELSE IF WrapArmed(h) /\ (h.y >= upThreshold(h) \/ h.y <= downThreshold(h))
  THEN IF InCooldown(h)
       THEN [ h |-> Follow(h), branch |-> "cooldown" ]
       ELSE [ h |-> Wrap(h), branch |-> "wrap" ]
  ELSE [ h |-> Follow(h), branch |-> "normal" ]

\* the inputs of one frame: the pointer lock, the W/A/S/D keys give a target
\* point, E and Q a climb direction, the clock a frame delta
NoTarget == <<>>
Targets ==
  { << [ rad |-> r, ang |-> a ] >> : r \in 1 .. MaxReach, a \in 0 .. Turn - 1 }
    \cup { << [ rad |-> 0, ang |-> 0 ] >> }
\* frame deltas: a frame shorter than the cooldown and the longest one
Deltas == {1, MaxDt}
\* without the pointer lock updateMovement() returns before it reads a key:
\* no key held, or W/A/S/D towards one target with E held
UnlockedKeys ==
  { [ target |-> NoTarget, climb |-> 0 ],
    [ target |-> << [ rad |-> MaxReach, ang |-> 0 ] >>, climb |-> 1 ] }
FrameInputs ==
  [ isLocked : {TRUE}, target : {NoTarget} \cup Targets, climb : {0 - 1, 0, 1},
    dt : Deltas ]
    \cup { [ isLocked |-> FALSE, target |-> k.target, climb |-> k.climb, dt |-> d ] :
             k \in UnlockedKeys, d \in Deltas }

\* the W/A/S/D block of updateMovement()
MoveToTarget(h, target) ==
  LET theta == NearestBranch(h.lastTheta, WrappedTheta(target))
  IN [ h EXCEPT !.lastTheta = theta,
                !.camera = OnCircle(rClamped(target.rad), theta),
                !.y = HelixY(theta, h.offsetY) ]

\* updateMovement(dt) up to the call of constrainCameraToHelix()
BeforeConstraint(h, in) ==
  LET walked == IF in.target = NoTarget THEN h ELSE MoveToTarget(h, in.target[1])
  IN [ walked EXCEPT !.offsetY = @ + in.climb * ClimbPerTick * in.dt ]

\* the clocks Date.now() is compared with, a frame delta later
Elapse(h, dt) ==
  [ h EXCEPT !.sinceWrap = Min(wrapCooldown, @ + dt),
             !.sinceReady = Min(ReadyDelay + 1, @ + dt) ]

\* mutant: the frame runs without the pointer lock
updateMovement_Unlocked(h, in) ==
  IF ~h.modelsLoaded
  THEN [ h |-> h, branch |-> "skipped" ]
  ELSE constrainCameraToHelix(BeforeConstraint(h, in))

\* updateMovement(dt)
updateMovement(h, in) ==
  IF ~in.isLocked \/ ~h.modelsLoaded
  THEN [ h |-> h, branch |-> "skipped" ]
  ELSE constrainCameraToHelix(BeforeConstraint(h, in))

(***************************************************************************)
(* Helix events.                                                           *)
(***************************************************************************)
\* `refreshed` counts the writes of the reference pose's camera position
\* after the pose was stored; `locked` tells whether the frame had the pointer
\* lock, and `before` keeps the state at the start of a frame that
\* updateMovement() left at once and of a frame that found Q or E pressed and
\* none of W/A/S/D
NoFrame ==
  [ ev |-> "new", entry |-> <<>>, climbs |-> 0, early |-> 0, refreshed |-> 0,
    locked |-> FALSE, before |-> <<>> ]

\* the frame read Q or E pressed and none of W/A/S/D
ClimbOnly(in, branch) ==
  branch # "skipped" /\ in.target = NoTarget /\ in.climb # 0

\* the state at the start of updateMovement()
BeforeOf(h, in, branch) ==
  IF branch = "skipped" \/ ClimbOnly(in, branch) THEN << h >> ELSE <<>>

\* the state constrainCameraToHelix() was handed, kept for a frame that found
\* camera.y beyond a threshold (it wrapped, or the cooldown held it back)
EntryOf(h, in, branch) ==
  IF branch \in {"wrap", "cooldown"} THEN << BeforeConstraint(h, in) >> ELSE <<>>

\* the heights and offsets that are followed
Followed(h) ==
  /\ Abs(h.offsetY) <= MaxOffset
  /\ Abs(h.y - StartY) <= MaxAltitude

PlaceTowerAndStairs ==
  /\ ~hx.modelsLoaded
  /\ hx' = placeTowerAndStairs(hx)
  /\ hxFrame' = [ hxFrame EXCEPT !.ev = "load", !.entry = <<>>, !.locked = FALSE,
                                  !.before = <<>> ]
  /\ UNCHANGED <<cvars, pvars, avars, nvars>>

WrapReadyTimer ==
  /\ hx.modelsLoaded
  /\ ~hx.wrapReady
  /\ hx.sinceReady >= ReadyDelay
  /\ hx' = wrapReadyTimer(hx)
  /\ hxFrame' = [ hxFrame EXCEPT !.ev = "timer", !.entry = <<>>,
                                  !.refreshed = @ + 1, !.locked = FALSE,
                                  !.before = <<>> ]
  /\ UNCHANGED <<cvars, pvars, avars, nvars>>

\* one turn of the animation loop: updateMovement(dt) with the frame's inputs
FrameStep(in, now, out) ==
  LET climbed == IF out.h.offsetY # hx.offsetY THEN 1 ELSE 0
      early == IF out.branch # "skipped" /\ ~hx.wrapReady THEN 1 ELSE 0
  IN /\ Followed(out.h)
     /\ hxFrame.climbs + climbed <= MaxClimbs
     /\ hxFrame.early + early <= MaxEarlyFrames
     /\ hx' = out.h
     /\ hxFrame' = [ ev |-> out.branch,
                     entry |-> EntryOf(now, in, out.branch),
                     climbs |-> hxFrame.climbs + climbed,
                     early |-> hxFrame.early + early,
                     refreshed |-> hxFrame.refreshed
                       + (IF out.h.initialHelixRef # hx.initialHelixRef THEN 1 ELSE 0),
                     locked |-> in.isLocked,
                     before |-> BeforeOf(now, in, out.branch) ]

\* a frame the budgets of FrameStep leave no room for
OverBudget(in) ==
  /\ in.isLocked
  /\ hx.modelsLoaded
  /\ \/ in.climb # 0 /\ hxFrame.climbs >= MaxClimbs
     \/ ~hx.wrapReady /\ hxFrame.early >= MaxEarlyFrames

Frame ==
  /\ \E in \in FrameInputs :
       /\ ~OverBudget(in)
       /\ \E now \in { Elapse(hx, in.dt) } :
            \E out \in { updateMovement(now, in) } : FrameStep(in, now, out)
  /\ UNCHANGED <<cvars, pvars, avars, nvars>>

HNext ==
  \/ PlaceTowerAndStairs
  \/ WrapReadyTimer
  \/ Frame

(***************************************************************************)
(* AudioManager (audio_manager.js).  An audio element is "none" until      *)
(* _createAudio builds it, "paused" when it is silent, "starting" between  *)
(* a.play() and the start of playback, and "playing" after it.  The        *)
(* promises a.play() returned are settled by the browser: all those of an  *)
(* element are resolved when its playback starts, and pause() takes them   *)
(* away and queues their rejection.                                        *)
(***************************************************************************)
\* the keys of SOUND_MAP that are followed; 0 stands for a key it lacks
SoundKeys == 1 .. NumSounds
UnknownKey == 0
\* 'philosophy:on-star-link', the last key of SOUND_MAP
StarLinkKey == NumSounds

\* module load: no audio element, no active key
AudioLoaded ==
  [ activeKeys |-> {},
    audioEls |-> [ k \in SoundKeys |-> "none" ],
    pending |-> [ k \in SoundKeys |-> 0 ],
    aborted |-> [ k \in SoundKeys |-> FALSE ] ]

\* the sounds whose playback has started and has not ended or been paused
Sounding(a) == { k \in SoundKeys : a.audioEls[k] = "playing" }

\* the gate of play(): no active key, or one active key that is another one
Allowed(a, key) ==
  \/ Cardinality(a.activeKeys) = 0
  \/ Cardinality(a.activeKeys) = 1 /\ key \notin a.activeKeys

\* a.play() on the element of the key, built first if there is none: a
\* silent element starts, one that is starting or playing goes on; either
\* way a promise is returned
ElementPlay(a, key) ==
  [ a EXCEPT !.audioEls[key] = IF @ \in {"none", "paused"} THEN "starting" ELSE @,
             !.pending[key] = @ + 1 ]

\* AudioManager.play(key): the state it leaves and the value it returns
AudioManager_play(a, key) ==
  IF key = UnknownKey THEN [ a |-> a, result |-> FALSE ]
  ELSE IF ~Allowed(a, key) THEN [ a |-> a, result |-> FALSE ]
  ELSE [ a |-> ElementPlay(a, key), result |-> TRUE ]

\* playback of the element starts: the then-callbacks of its promises run
PlayResolved(a, key) ==
  [ a EXCEPT !.audioEls[key] = "playing",
             !.pending[key] = 0,
             !.activeKeys = @ \cup {key} ]

\* the browser refuses to start the element: the catch-callbacks run
PlayRefused(a, key) ==
  [ a EXCEPT !.audioEls[key] = "paused",
             !.pending[key] = 0,
             !.activeKeys = @ \ {key} ]

\* the promises pause() took away are rejected: the catch-callbacks run
PlayAborted(a, key) ==
  [ a EXCEPT !.aborted[key] = FALSE,
             !.activeKeys = @ \ {key} ]

\* the 'ended' listener (and the 'pause' listener that follows the end)
AudioEnded(a, key) ==
  [ a EXCEPT !.audioEls[key] = "paused",
             !.activeKeys = @ \ {key} ]

\* AudioManager.stopAll(): pauses and rewinds every element, clears the set
AudioManager_stopAll(a) ==
  [ a EXCEPT !.audioEls = [ k \in SoundKeys |-> IF @[k] = "none" THEN "none" ELSE "paused" ],
             !.aborted = [ k \in SoundKeys |-> @[k] \/ a.pending[k] > 0 ],
             !.pending = [ k \in SoundKeys |-> 0 ],
             !.activeKeys = {} ]

(***************************************************************************)
(* AudioManager events.                                                    *)
(***************************************************************************)
NoAudioEvent == [ op |-> "none", key |-> UnknownKey, result |-> FALSE, heard |-> {} ]

AudioPlay ==
  /\ \E key \in SoundKeys \cup {UnknownKey} :
       \E out \in { AudioManager_play(am, key) } :
         /\ \A k \in SoundKeys : out.a.pending[k] <= MaxPending
         /\ am' = out.a
         /\ amEvent' = [ op |-> "play", key |-> key, result |-> out.result,
                         heard |-> Sounding(am) ]
  /\ UNCHANGED <<cvars, pvars, hvars, nvars>>

AudioPlayResolves ==
  /\ \E key \in SoundKeys :
       /\ am.pending[key] > 0
       /\ am.audioEls[key] = "starting"
       /\ am' = PlayResolved(am, key)
       /\ amEvent' = [ op |-> "resolved", key |-> key, result |-> TRUE,
                       heard |-> Sounding(am) ]
  /\ UNCHANGED <<cvars, pvars, hvars, nvars>>

AudioPlayRejects ==
  /\ \E key \in SoundKeys :
       /\ \/ /\ am.aborted[key]
             /\ am' = PlayAborted(am, key)
          \/ /\ ~am.aborted[key]
             /\ am.pending[key] > 0
             /\ am.audioEls[key] = "starting"
             /\ am' = PlayRefused(am, key)
       /\ amEvent' = [ op |-> "rejected", key |-> key, result |-> FALSE,
                       heard |-> Sounding(am) ]
  /\ UNCHANGED <<cvars, pvars, hvars, nvars>>

AudioEnds ==
  /\ \E key \in SoundKeys :
       /\ am.audioEls[key] = "playing"
       /\ am' = AudioEnded(am, key)
       /\ amEvent' = [ op |-> "ended", key |-> key, result |-> TRUE,
                       heard |-> Sounding(am) ]
  /\ UNCHANGED <<cvars, pvars, hvars, nvars>>

AudioStopAll ==
  /\ am' = AudioManager_stopAll(am)
  /\ amEvent' = [ op |-> "stopAll", key |-> UnknownKey, result |-> TRUE,
                  heard |-> Sounding(am) ]
  /\ UNCHANGED <<cvars, pvars, hvars, nvars>>

ANext ==
  \/ AudioPlay
  \/ AudioPlayResolves
  \/ AudioPlayRejects
  \/ AudioEnds
  \/ AudioStopAll

(***************************************************************************)
(* NarratorManager (main.js).  Every play() that passes the gate builds a  *)
(* new audio element; the elements are numbered in the order they are      *)
(* built and 0 stands for null.                                            *)
(***************************************************************************)
NarratorKeys == 1 .. NumClips
NoClip == 0

\* module load: _currentAudio = null, _currentKey = null, no element built
NarratorLoaded ==
  [ currentAudio |-> NoClip,
    currentKey |-> NoClip,
    clips |-> <<>> ]

\* the elements whose playback has started and has not ended or been paused
Narrating(n) == { i \in DOMAIN n.clips : n.clips[i].st = "playing" }

\* a.pause(); a.currentTime = 0 on the element _currentAudio refers to
PauseCurrent(n) ==
  IF n.currentAudio = NoClip THEN n
  ELSE [ n EXCEPT !.clips[n.currentAudio].st = "paused" ]

\* the gate of play(): a current element that has not ended, and a key
Busy(n) ==
  /\ n.currentAudio # NoClip
  /\ n.clips[n.currentAudio].st # "ended"
  /\ n.currentKey # NoClip

\* NarratorManager.play(key): the state it leaves and the value it returns
NarratorManager_play(n, key) ==
  IF key = UnknownKey THEN [ n |-> n, result |-> FALSE ]
  ELSE IF Busy(n) THEN [ n |-> n, result |-> FALSE ]
  ELSE LET discarded == [ PauseCurrent(n) EXCEPT !.currentAudio = NoClip,
                                                 !.currentKey = NoClip ]
       IN [ n |-> [ discarded EXCEPT
                      !.clips = Append(@, [ key |-> key, st |-> "starting",
                                            pending |-> TRUE ]) ],
            result |-> TRUE ]

\* the then-callback of the play promise of element i
NarratorResolved(n, i) ==
  [ n EXCEPT !.clips[i].st = "playing",
             !.clips[i].pending = FALSE,
             !.currentAudio = i,
             !.currentKey = n.clips[i].key ]

\* the catch-callback of the play promise of element i
NarratorRejected(n, i) ==
  [ n EXCEPT !.clips[i].st = "paused",
             !.clips[i].pending = FALSE,
             !.currentAudio = NoClip,
             !.currentKey = NoClip ]

\* the 'ended' listener of element i
NarratorEnded(n, i) ==
  [ n EXCEPT !.clips[i].st = "ended",
             !.currentAudio = NoClip,
             !.currentKey = NoClip ]

\* NarratorManager.stopAll()
NarratorManager_stopAll(n) ==
  [ PauseCurrent(n) EXCEPT !.currentAudio = NoClip, !.currentKey = NoClip ]

(***************************************************************************)
(* NarratorManager events.                                                 *)
(***************************************************************************)
NoNarratorEvent == [ op |-> "none", key |-> UnknownKey, result |-> FALSE, heard |-> {} ]

NarratorPlay ==
  /\ \E key \in NarratorKeys \cup {UnknownKey} :
       \E out \in { NarratorManager_play(nm, key) } :
         /\ Len(out.n.clips) <= MaxClips
         /\ nm' = out.n
         /\ nmEvent' = [ op |-> "play", key |-> key, result |-> out.result,
                         heard |-> Narrating(nm) ]
  /\ UNCHANGED <<cvars, pvars, hvars, avars>>

NarratorPlayResolves ==
  /\ \E i \in DOMAIN nm.clips :
       /\ nm.clips[i].pending
       /\ nm.clips[i].st = "starting"
       /\ nm' = NarratorResolved(nm, i)
       /\ nmEvent' = [ op |-> "resolved", key |-> nm.clips[i].key, result |-> TRUE,
                       heard |-> Narrating(nm) ]
  /\ UNCHANGED <<cvars, pvars, hvars, avars>>

NarratorPlayRejects ==
  /\ \E i \in DOMAIN nm.clips :
       /\ nm.clips[i].pending
       /\ nm.clips[i].st = "starting"
       /\ nm' = NarratorRejected(nm, i)
       /\ nmEvent' = [ op |-> "rejected", key |-> nm.clips[i].key, result |-> FALSE,
                       heard |-> Narrating(nm) ]
  /\ UNCHANGED <<cvars, pvars, hvars, avars>>

NarratorEnds ==
  /\ \E i \in DOMAIN nm.clips :
       /\ nm.clips[i].st = "playing"
       /\ nm' = NarratorEnded(nm, i)
       /\ nmEvent' = [ op |-> "ended", key |-> nm.clips[i].key, result |-> TRUE,
                       heard |-> Narrating(nm) ]
  /\ UNCHANGED <<cvars, pvars, hvars, avars>>

NarratorStopAll ==
  /\ nm' = NarratorManager_stopAll(nm)
  /\ nmEvent' = [ op |-> "stopAll", key |-> UnknownKey, result |-> TRUE,
                  heard |-> Narrating(nm) ]
  /\ UNCHANGED <<cvars, pvars, hvars, avars>>

NNext ==
  \/ NarratorPlay
  \/ NarratorPlayResolves
  \/ NarratorPlayRejects
  \/ NarratorEnds
  \/ NarratorStopAll

(***************************************************************************)
(* Constellation events.                                                   *)
(***************************************************************************)
NoGesture == [ open |-> FALSE, downStar |-> <<>>, matched |-> {}, edges |-> <<>> ]

Load ==
  /\ ~cg.loaded
  /\ \E se \in SampleEdges, sh \in SampleShooting :
       cg' = load(cg, NumStars, se, sh)
  /\ gesture' = NoGesture
  /\ lastEvent' = "load"
  /\ UNCHANGED <<pvars, hvars, avars, nvars>>

PointerDown ==
  /\ cg.loaded
  /\ \E hits \in HitLists :
       /\ cg' = _onPointerDown(cg, hits)
       /\ gesture' = IF Len(hits) = 0 THEN gesture
                     ELSE [ open |-> TRUE, downStar |-> <<hits[1]>>,
                            matched |-> cg.matchedEdges, edges |-> <<>> ]
       /\ lastEvent' = IF Len(hits) = 0 THEN "down-miss" ELSE "down"
  /\ UNCHANGED <<pvars, hvars, avars, nvars>>

\* AudioManager.play('philosophy:on-star-link'), called by
\* _finalizeSegmentAndStartNew once the temporary line is recorded
StarLinkSound ==
  \E out \in { AudioManager_play(am, StarLinkKey) } :
    /\ am' = out.a
    /\ amEvent' = [ op |-> "play", key |-> StarLinkKey, result |-> out.result,
                    heard |-> Sounding(am) ]

PointerMove ==
  /\ cg.loaded
  /\ \E hits \in HitLists :
       /\ cg' = _onPointerMove(cg, hits)
       /\ cg'.lineCount <= MaxLines
       /\ lastEvent' = IF ~cg.dragging THEN "move-idle"
                       ELSE IF cg'.lineCount # cg.lineCount THEN "move-link"
                       ELSE IF FirstOther(hits, LastOf(cg.currentPath)) # <<>>
                         THEN "move-throw"
                       ELSE "move"
  /\ IF cg'.lineCount # cg.lineCount THEN StarLinkSound ELSE UNCHANGED avars
  /\ UNCHANGED gesture
  /\ UNCHANGED <<pvars, hvars, nvars>>

PointerUp ==
  /\ cg.loaded
  /\ cg' = _onPointerUp(cg)
  /\ cg'.onCompleteCalls <= MaxCompletions
  /\ gesture' = IF cg.dragging
                  THEN [ gesture EXCEPT !.open = FALSE, !.edges = cg.edgesThisClick ]
                  ELSE gesture
  /\ lastEvent' = IF cg.dragging THEN "up" ELSE "up-idle"
  /\ UNCHANGED <<pvars, hvars, avars, nvars>>

ShowButton ==
  /\ cg.loaded
  /\ cg' = _clearAllLines(cg)
  /\ lastEvent' = "show"
  /\ UNCHANGED gesture
  /\ UNCHANGED <<pvars, hvars, avars, nvars>>

CInit ==
  /\ cg = Constructed
  /\ gesture = NoGesture
  /\ lastEvent = "new"
  /\ pz = ModuleLoaded
  /\ pzEvent = NoEvent
  /\ hx = SceneCreated
  /\ hxFrame = NoFrame
  /\ am = AudioLoaded
  /\ amEvent = NoAudioEvent
  /\ nm = NarratorLoaded
  /\ nmEvent = NoNarratorEvent

CNext ==
  \/ Load
  \/ PointerDown
  \/ PointerMove
  \/ PointerUp
  \/ ShowButton

SpecConstellation == CInit /\ [][CNext]_vars

SpecPuzzle == CInit /\ [][PNext]_vars

\* the puzzle with requestAnimationFrame serving its callbacks: the step
\* functions of the animations re-schedule themselves until the duration has
\* passed and then resolve (part_001:249-287, 73-79)
SpecPuzzleFair == CInit /\ [][PNext]_vars /\ WF_vars(AnimationFrame)

SpecHelix == CInit /\ [][HNext]_vars

SpecAudio == CInit /\ [][ANext]_vars

SpecNarrator == CInit /\ [][NNext]_vars


(***************************************************************************)
(* Claims about the constellation engine.                                  *)
(***************************************************************************)
\* vocabulary of the claims, in terms of the engine state
RequiredEdges == cg.edges
MatchedEdges == cg.matchedEdges
LinkedStars(g) == { i \in DOMAIN g.stars : g.stars[i].linked }
TempLinkedStars(g) == { i \in DOMAIN g.stars : g.stars[i].linkedTemp }
\* every tentative edge in the list is a required edge
AllRequired(es, required) == \A k \in 1 .. Len(es) : es[k] \in required
\* the stars at the ends of the tentative edges in the list
Touched(es) == UNION { { es[k][1], es[k][2] } : k \in 1 .. Len(es) }
\* the step is a pointer-up that ends a drag
EndsGesture == cg.dragging /\ lastEvent' = "up"
\* the gesture in progress began with a pointer-down on a shooting star
ShotGesture(g, gs) ==
  gs.open /\ gs.downStar # <<>> /\ g.stars[gs.downStar[1]].shooting

\* C1: in normal mode every matched edge is a required edge, in every
\* reachable state (after any sequence of load and pointer events).
C1_MatchedSubsetRequired == MatchedEdges \subseteq RequiredEdges

\* C1 witness: a gesture has been committed and its edge is matched.
C1_Witness ==
  /\ lastEvent = "up"
  /\ MatchedEdges # {}
  /\ MatchedEdges # RequiredEdges

\* C2: a pointer-up ending a gesture that holds at least one tentative edge
\* that is not required leaves MatchedEdges at its pre-gesture value, adds
\* no permanent line and marks no star linked.
C2_GestureAtomicity ==
  [][ (EndsGesture /\ ~AllRequired(cg.edgesThisClick, RequiredEdges)) =>
        /\ cg'.matchedEdges = gesture.matched
        /\ cg'.matchedEdges = cg.matchedEdges
        /\ cg'.permanentLines = cg.permanentLines
        /\ LinkedStars(cg') = LinkedStars(cg) ]_cvars

\* C2 witness: RequiredEdges = {(0,1)}, the drag 0 -> 1 -> 2 has ended, and
\* nothing is matched and no line is permanent.
C2_Witness ==
  /\ lastEvent = "up"
  /\ RequiredEdges = { <<0, 1>> }
  /\ gesture.edges = << <<0, 1>>, <<1, 2>> >>
  /\ MatchedEdges = {}
  /\ cg.permanentLines = <<>>

\* C8 (as claimed): a pointer-up ending a gesture whose tentative edges are
\* all required adds every tentative edge to MatchedEdges, makes every
\* temporary line of the gesture permanent, leaves every star at an end of a
\* tentative edge linked, and keeps linked stars linked.
C8_ValidCommit ==
  [][ (EndsGesture /\ AllRequired(cg.edgesThisClick, RequiredEdges)) =>
        /\ Range(cg.edgesThisClick) \subseteq cg'.matchedEdges
        /\ cg'.permanentLines = cg.permanentLines \o cg.tempLinesThisClick
        /\ Touched(cg.edgesThisClick) \subseteq LinkedStars(cg')
        /\ LinkedStars(cg) \subseteq LinkedStars(cg') ]_cvars

\* C9: a pointer-up that commits invokes the completion callback exactly when
\* RequiredEdges is non-empty and contained in MatchedEdges, or RequiredEdges
\* is empty and every star is linked (both read after the commit); a
\* pointer-up that drops, and a pointer-down, never invoke it.
C9_CompletionCheck ==
  [][ /\ (EndsGesture /\ AllRequired(cg.edgesThisClick, RequiredEdges)) =>
           IF (RequiredEdges # {} /\ RequiredEdges \subseteq cg'.matchedEdges)
              \/ (RequiredEdges = {} /\ LinkedStars(cg') = DOMAIN cg'.stars)
             THEN cg'.onCompleteCalls = cg.onCompleteCalls + 1
             ELSE cg'.onCompleteCalls = cg.onCompleteCalls
      /\ (EndsGesture /\ ~AllRequired(cg.edgesThisClick, RequiredEdges)) =>
           cg'.onCompleteCalls = cg.onCompleteCalls
      /\ lastEvent' \in { "down", "down-miss" } =>
           cg'.onCompleteCalls = cg.onCompleteCalls ]_cvars

\* C9 witness: a commit has just completed the level (callback invoked), with
\* two required edges both matched.
C9_Witness ==
  /\ lastEvent = "up"
  /\ cg.onCompleteCalls = 1
  /\ Cardinality(RequiredEdges) = 2
  /\ RequiredEdges \subseteq MatchedEdges

\* C10: a pointer-down on a shooting star leaves no tentative edge, temporary
\* line or temporarily linked star behind; while that gesture is in progress
\* no event produces one or commits anything; and its pointer-up commits
\* nothing and leaves the engine idle.
C10_ShootingDownInvalidates ==
  [][ /\ ShotGesture(cg', gesture') =>
           /\ cg'.edgesThisClick = <<>>
           /\ cg'.tempLinesThisClick = <<>>
           /\ cg'.starsLinkedThisClick = <<>>
           /\ cg'.matchedEdges = cg.matchedEdges
           /\ LinkedStars(cg') \subseteq LinkedStars(cg)
           /\ Len(cg'.permanentLines) <= Len(cg.permanentLines)
           /\ TempLinkedStars(cg') \subseteq TempLinkedStars(cg)
      /\ (ShotGesture(cg, gesture) /\ lastEvent' = "up") =>
           /\ ~cg'.dragging
           /\ cg'.matchedEdges = cg.matchedEdges
           /\ cg'.permanentLines = cg.permanentLines
           /\ LinkedStars(cg') = LinkedStars(cg)
           /\ cg'.edgesThisClick = <<>>
           /\ cg'.tempLinesThisClick = <<>>
           /\ cg'.starsLinkedThisClick = <<>> ]_cvars

\* C10 witness: a gesture that began on a shooting star has been ended by its
\* pointer-up after a pointer-move over another star, and the engine is idle.
C10_Witness ==
  /\ lastEvent = "up"
  /\ ~gesture.open
  /\ gesture.downStar # <<>>
  /\ cg.stars[gesture.downStar[1]].shooting
  /\ ~cg.dragging

\* the shooting stars of the level
ShootingStars(g) == { i \in DOMAIN g.stars : g.stars[i].shooting }

\* C11 (as claimed): no edge incident to a shooting star is ever in
\* MatchedEdges and no shooting star is ever permanently linked, because a
\* gesture that passes through a shooting star commits none of its edges.
C11_ShootingNeverLinked ==
  /\ \A e \in MatchedEdges : e[1] \notin ShootingStars(cg) /\ e[2] \notin ShootingStars(cg)
  /\ LinkedStars(cg) \cap ShootingStars(cg) = {}

(***************************************************************************)
(* Claims about the slide puzzle.  The vocabulary of the claims is defined *)
(* here from the statement of each claim, not from the handlers above.     *)
(***************************************************************************)
Cells == [ r : Rows, c : Cols ]
TileValues == 0 .. (ROWS * COLS - 1)

\* each value of 0 .. R*C-1 sits in exactly one cell
IsPermutation(board) ==
  \A v \in TileValues : Cardinality({ x \in Cells : board[x.r][x.c] = v }) = 1

\* the cell holding 0
BlankCell(board) == CHOOSE x \in Cells : board[x.r][x.c] = 0

\* blank + offset(D)
Offset(blank, d) ==
  IF d = "U" THEN [ r |-> blank.r - 1, c |-> blank.c ]
  ELSE IF d = "D" THEN [ r |-> blank.r + 1, c |-> blank.c ]
  ELSE IF d = "L" THEN [ r |-> blank.r, c |-> blank.c - 1 ]
  ELSE [ r |-> blank.r, c |-> blank.c + 1 ]

Inside(cell) == cell.r \in Rows /\ cell.c \in Cols

\* a board written as a list of rows
BoardOf(rows) == [ r \in Rows |-> [ c \in Cols |-> rows[r + 1][c + 1] ] ]

SolvedBoard == BoardOf(<< <<1, 2, 3, 4>>, <<5, 6, 7, 8>>, <<9, 10, 11, 0>> >>)

\* C3: after any sequence of _applyMove calls (legal or rejected), scrambles
\* and blank re-seeks from the solved board, the board holds each value of
\* 0 .. R*C-1 exactly once, and so exactly one 0; a further _applyMove in any
\* direction keeps it so
C3_BoardInvariant ==
  pz.inited =>
    /\ IsPermutation(pz.board)
    /\ Cardinality({ x \in Cells : pz.board[x.r][x.c] = 0 }) = 1
    /\ \A d \in Dirs : IsPermutation(_applyMove(pz.board, d).board)

\* a slide has just been applied at the end of a run of moves that used the
\* whole budget, on a board that a rejected move is possible on
C3_Witness ==
  /\ pz.inited
  /\ pzEvent = "slide"
  /\ pz.moves = MaxMoves
  /\ \E d \in Dirs : ~_applyMove(pz.board, d).moved
  /\ pz.board # SolvedBoard

\* the boards one legal move away: the blank trades places with a neighbour
\* inside the grid
LegalSlides(board) ==
  LET blank == BlankCell(board)
  IN { [ board EXCEPT ![blank.r][blank.c] = board[Offset(blank, d).r][Offset(blank, d).c],
                      ![Offset(blank, d).r][Offset(blank, d).c] = 0 ] :
         d \in { e \in Dirs : Inside(Offset(blank, e)) } }

\* the legal moves that a legal move takes back
ThereAndBack(board) == { a \in LegalSlides(board) : board \in LegalSlides(a) }

RECURSIVE Closure(_, _, _)
\* the boards within n such moves of the boards seen
Closure(seen, frontier, n) ==
  IF n = 0 THEN seen
  ELSE LET next == { x : x \in { y \in UNION { ThereAndBack(b) : b \in frontier } :
                                   y \notin seen } }
       IN Closure({ x : x \in seen \cup next }, next, n - 1)

\* the longest run of moves the model follows from the solved board
LongestRun == MaxMoves

\* the boards that legal moves reach from the solved board and that legal
\* moves take back to it
Solvable == Closure({ SolvedBoard }, { SolvedBoard }, LongestRun)

\* C4: every board the move-based shuffle and the blank re-seek produce is
\* reachable from the solved board by legal moves, and the solved board is
\* reachable back from it by legal moves
C4_Solvability ==
  (pz.inited /\ pzEvent \in { "init", "shuffle" }) => pz.board \in Solvable

\* the puzzle is active and idle after a shuffle input, so the shuffle ran, on
\* a board init() had already scrambled, and it has left an unsolved board
C4_Witness ==
  /\ pz.inited
  /\ pzEvent = "shuffle"
  /\ pz.active /\ pz.listeners > 0 /\ ~pz.animating
  /\ pz.moves >= 2 * ScrambleMoves
  /\ pz.board # SolvedBoard

\* C5: while a tile animation (slide, quiver, fade) is in progress an arrow
\* key or a shuffle input changes neither the board nor the animations, and
\* no two tile animations ever run at once
C5_SingleFlight ==
  [][ /\ Len(pz'.anims) <= 1
      /\ (Len(pz.anims) > 0 /\ pzEvent' \in { "arrow", "shuffle" })
           => (pz'.board = pz.board /\ pz'.anims = pz.anims) ]_vars

\* an arrow key has arrived at the active puzzle while the final tile fades
\* in (an arrow key starts no fade, so the fade was in progress before it)
C5_Witness ==
  /\ pzEvent = "arrow"
  /\ pz.active
  /\ pz.listeners > 0
  /\ Len(pz.anims) = 1
  /\ pz.anims[1].kind = "fade"

\* C6: for every valid board and direction, _canMove is true and _applyMove
\* returns true iff blank + offset lies inside the grid; a legal move puts the
\* source cell's value into the blank cell, sets the source cell to 0 and
\* changes no other cell; U on the solved 3x4 board gives
\* [[1,2,3,4],[5,6,7,0],[9,10,11,8]], which is not solved
C6_MoveLegalityAndEffect ==
  /\ pz.inited =>
       \A d \in Dirs :
         LET blank == BlankCell(pz.board)
             src == Offset(blank, d)
             after == _applyMove(pz.board, d)
         IN /\ _canMove(pz.board, d) = Inside(src)
            /\ after.moved = Inside(src)
            /\ Inside(src) =>
                 \A x \in Cells :
                   after.board[x.r][x.c] =
                     IF x = blank THEN pz.board[src.r][src.c]
                     ELSE IF x = src THEN 0
                     ELSE pz.board[x.r][x.c]
  /\ _applyMove(SolvedBoard, "U").moved
  /\ _applyMove(SolvedBoard, "U").board =
       BoardOf(<< <<1, 2, 3, 4>>, <<5, 6, 7, 0>>, <<9, 10, 11, 8>> >>)
  /\ ~_isSolved(BoardOf(<< <<1, 2, 3, 4>>, <<5, 6, 7, 0>>, <<9, 10, 11, 8>> >>))

\* a slide has been applied and left the blank inside the last column above
\* the corner, where U and L and D are legal and R is not
C6_Witness ==
  /\ pz.inited
  /\ pzEvent = "slide"
  /\ BlankCell(pz.board) = [ r |-> 1, c |-> COLS - 1 ]
  /\ ~_canMove(pz.board, "R")
  /\ _canMove(pz.board, "U") /\ _canMove(pz.board, "D") /\ _canMove(pz.board, "L")

\* an arrow key of this step started a quiver
QuiverStarted ==
  /\ pzEvent' = "arrow"
  /\ Len(pz'.anims) = Len(pz.anims) + 1
  /\ pz'.anims[Len(pz'.anims)].kind = "quiver"

\* C7: an illegal move (source cell outside the grid) leaves the board as it
\* is: _applyMove returns false and the same board, and the quiver path of the
\* key handler, from the key to the end of the quiver, changes no cell
C7_IllegalMoveNoChange ==
  [][ /\ pz.inited =>
           \A d \in Dirs :
             ~Inside(Offset(BlankCell(pz.board), d)) =>
               /\ ~_applyMove(pz.board, d).moved
               /\ _applyMove(pz.board, d).board = pz.board
      /\ (QuiverStarted \/ pzEvent' = "quiver") => pz'.board = pz.board ]_vars

\* a quiver has run to its end on a scrambled board
C7_Witness ==
  /\ pz.inited
  /\ pzEvent = "quiver"
  /\ ~pz.animating
  /\ pz.board # SolvedBoard

(***************************************************************************)
(* Claims about the helix walk.                                            *)
(***************************************************************************)
\* the last event was a frame updateMovement() processed to its end
Processed == hxFrame.ev \in {"normal", "cooldown", "wrap"}

\* C12: after every movement frame processed with the helix enabled, the
\* camera's horizontal distance from the helix centre lies in
\* [radius - thickness/2, radius + thickness/2], however far the attempted
\* target was.  It is checked after every processed frame, the movement
\* frames among them.
C12_RadiusClamp ==
  Processed => (hx.camera.rad >= rMin /\ hx.camera.rad <= rMax)

\* a movement frame whose target lay inside the band's inner edge left the
\* camera on rMin (the camera starts outside the band, and a frame without
\* movement clamps it to rMax)
C12_Witness ==
  /\ Processed
  /\ hx.camera.rad = rMin

\* a frame that ran the constraint to its end without wrapping: lastTheta is
\* the theta the continuity rule derived from the camera position
Recomputed == hxFrame.ev \in {"normal", "cooldown"}

\* C13: in every frame where theta is recomputed from a position, the new
\* theta is the wrapped angle of the position plus whole revolutions, and it
\* differs from the previous lastTheta by at most half a revolution; crossing
\* the 0/2 pi seam never produces a jump of a full revolution.
C13_Continuity ==
  [][ Recomputed' =>
        /\ hx'.lastTheta % Turn = WrappedTheta(hx'.camera)
        /\ 2 * Abs(hx'.lastTheta - hx.lastTheta) <= Turn ]_vars

\* the camera walked from the start angle over the seam to angle 0: the
\* wrapped angle fell by StartAngle while theta rose by one step
C13_Witness ==
  /\ Recomputed
  /\ WrappedTheta(hx.camera) = 0
  /\ hx.lastTheta = placeTowerAndStairs(SceneCreated).lastTheta + (Turn - StartAngle)

\* the last event was a frame in which constrainCameraToHelix() wrapped
Wrapped == hxFrame.ev = "wrap"

\* C14 (as claimed): immediately after any wrap event camera.y lies within
\* two rings of the reference pose, [ref.y - 2 pitch, ref.y + 2 pitch],
\* whatever frame delta and whatever movement and Q/E input led to the wrap.
C14_WrapResolves ==
  Wrapped => (hx.y >= downThreshold(hx) /\ hx.y <= upThreshold(hx))

\* the state constrainCameraToHelix() was handed in the frame that wrapped
WrapEntry == hxFrame.entry[1]

C16_ThetaMatchesAngle ==
  hx.modelsLoaded => hx.lastTheta % Turn = WrappedTheta(hx.camera)

\* a frame wrapped after the camera had walked away from the start angle
C16_Witness ==
  /\ Wrapped
  /\ WrappedTheta(hx.camera) # StartAngle
  /\ hx.lastTheta % Turn = WrappedTheta(hx.camera)

\* C17: with the helix enabled, at the end of every processed frame
\* camera.y = baseY + sign * (lastTheta / 2 pi) * pitch + offsetY; Q/E only
\* changes offsetY and Y is never integrated on its own, so this holds after
\* any sequence of movement, vertical-offset and wrap frames.
C17_HeightFollowsHelix ==
  Processed => hx.y = HelixY(hx.lastTheta, hx.offsetY)

\* a processed frame after Q/E changed the offset and the camera left the
\* angle and the height it was loaded at
C17_Witness ==
  /\ Processed
  /\ hx.offsetY # 0
  /\ hx.lastTheta # placeTowerAndStairs(SceneCreated).lastTheta
  /\ hx.y # StartY
  /\ hx.y = HelixY(hx.lastTheta, hx.offsetY)

\* theta -> XZ position at distance r -> theta, by the continuity rule seeded
\* with lastTheta = theta
RoundTrip(theta, r) == NearestBranch(theta, WrappedTheta(OnCircle(r, theta)))

\* the thetas up to three revolutions on either side of the camera's
NearbyThetas == (hx.lastTheta - 3 * Turn) .. (hx.lastTheta + 3 * Turn)

RowMajorSolved(board) ==
  \A cell \in Cells :
    board[cell.r][cell.c] =
      IF cell.r = ROWS - 1 /\ cell.c = COLS - 1 THEN 0 ELSE cell.r * COLS + cell.c + 1

\* the boards one legal slide away from the board
Neighbours == { _applyMove(pz.board, d).board : d \in Dirs }

\* C19: _isSolved returns true iff, reading the board row-major, every cell
\* except the last equals its 1-based index and the last cell is 0, that is
\* iff the board is the one _createEmptyBoard builds; hide() uses the same
\* predicate.  Checked on every board the puzzle reaches and on the boards
\* one slide away from it.
C19_SolvedCheck ==
  pz.inited =>
    \A board \in {pz.board} \cup Neighbours :
      /\ _isSolved(board) <=> RowMajorSolved(board)
      /\ _isSolved(board) <=> board = _createEmptyBoard
      /\ solved(board) <=> _isSolved(board)

\* a slide the player made has just put the scrambled board back in order
C19_Witness ==
  /\ pz.inited
  /\ pzEvent = "slide"
  /\ pz.moves > ScrambleMoves
  /\ _isSolved(pz.board)
  /\ \E board \in Neighbours : ~_isSolved(board)

\* the solved flow has run to its end: the fade that follows the solving
\* move finished and set puzzleState = 'finished' and puzzleSolved
CompletionRan == pzEvent = "fade"

\* the terminal state the solved flow leaves
Terminal ==
  /\ pz.puzzleState = "finished"
  /\ pz.puzzleSolved
  /\ pz.board = _createEmptyBoard

\* C20 (as claimed): once a move has solved the board and the completion
\* flow has run, no later sequence of show, hide, toggle and key events
\* applies another move to the board or takes puzzleState out of 'finished'.
\* Already the first event after the completion flow has to leave the
\* puzzle in the terminal state.
C20_SolvedIsTerminal ==
  [][ (CompletionRan /\ Terminal) => Terminal' ]_vars

(***************************************************************************)
(* Claims about the sound managers.                                        *)
(***************************************************************************)
\* C21: whatever the interleaving of play() calls, promise resolutions and
\* 'ended' events, at most two distinct sound keys are playing, and a play()
\* that returns true was made with nothing playing or with one other key
\* playing.
C21_AtMostTwoSounds ==
  /\ Cardinality(Sounding(am)) <= 2
  /\ (amEvent.op = "play" /\ amEvent.result) =>
       \/ amEvent.heard = {}
       \/ Cardinality(amEvent.heard) = 1 /\ amEvent.key \notin amEvent.heard

\* C22: whatever the interleaving of play() calls, promise resolutions and
\* 'ended' events, at most one narrator clip is playing.
C22_AtMostOneClip == Cardinality(Narrating(nm)) <= 1

(***************************************************************************)
(* Claims about the blank re-seek.                                         *)
(***************************************************************************)
RECURSIVE Replay(_, _)
\* the board after the moves of a step list, <<>> if one of them is refused
Replay(board, steps) ==
  IF steps = <<>> THEN << board >>
  ELSE LET m == _applyMove(board, Head(steps))
       IN IF m.moved THEN Replay(m.board, Tail(steps)) ELSE <<>>

\* C23: from the board of any state, _minimalMovesToBottomRight ends with the
\* blank at (ROWS-1, COLS-1) after at most (ROWS-1)+(COLS-1) moves, all of
\* them D or R, reaches neither the safety cap nor the fallback, and returns
\* exactly the moves it applied.
C23_Reseek ==
  pz.inited =>
    \A seek \in { _minimalMovesToBottomRight(pz.board) } :
      /\ _findBlank(seek.board) = << [ r |-> ROWS - 1, c |-> COLS - 1 ] >>
      /\ Len(seek.steps) <= (ROWS - 1) + (COLS - 1)
      /\ \A k \in 1 .. Len(seek.steps) : seek.steps[k] \in {"D", "R"}
      /\ ~seek.capped
      /\ ~seek.fallback
      /\ Replay(pz.board, seek.steps) = << seek.board >>

\* the blank is in the top-left corner: the re-seek has the longest way to go
C23_Witness ==
  /\ pz.inited
  /\ _findBlank(pz.board) = << [ r |-> 0, c |-> 0 ] >>
  /\ Len(_minimalMovesToBottomRight(pz.board).steps) = (ROWS - 1) + (COLS - 1)

(***************************************************************************)
(* Claims about the wrap guard.                                            *)
(***************************************************************************)
\* the last event was a frame that found camera.y beyond a threshold inside
\* the cooldown window
HeldBack == hxFrame.ev = "cooldown"

\* the state constrainCameraToHelix() was handed in the frame held back
HeldEntry == hxFrame.entry[1]

\* C24: a wrap happens only when at least wrapCooldown has passed since the
\* wrap before it; a frame whose camera.y is beyond a threshold inside the
\* cooldown window does not wrap (camera.y is not translated, the time of the
\* last wrap is kept) and is processed as a normal constraint frame: theta by
\* the continuity rule, the radius clamped, camera.y on the helix.
C24_Cooldown ==
  /\ Wrapped => WrapEntry.sinceWrap >= wrapCooldown
  /\ HeldBack =>
       /\ HeldEntry.sinceWrap < wrapCooldown
       /\ HeldEntry.y >= upThreshold(HeldEntry) \/ HeldEntry.y <= downThreshold(HeldEntry)
       /\ hx.sinceWrap = HeldEntry.sinceWrap
       /\ hx.offsetY = HeldEntry.offsetY
       /\ hx.initialHelixRef = HeldEntry.initialHelixRef
       /\ hx.lastTheta = NearestBranch(HeldEntry.lastTheta, WrappedTheta(HeldEntry.camera))
       /\ hx.camera = OnCircle(rClamped(HeldEntry.camera.rad), hx.lastTheta)
       /\ hx.y = HelixY(hx.lastTheta, hx.offsetY)

\* a frame was held back one tick after a wrap, with camera.y still beyond
\* the threshold the wrap was to resolve
C24_Witness ==
  /\ HeldBack
  /\ HeldEntry.sinceWrap = 1
  /\ hx.y <= downThreshold(hx) \/ hx.y >= upThreshold(hx)

\* C25: a frame wraps only with the models loaded, the reference pose stored,
\* wrapReady set and more than 1000 ms passed since it was set; the camera
\* position of the reference pose is the start position until wrapReady is
\* set, is written once when it is set, and is not written again, on a wrap
\* or otherwise.
C25_NoEarlyWrap ==
  /\ Wrapped =>
       /\ WrapEntry.modelsLoaded
       /\ WrapEntry.initialHelixRef # <<>>
       /\ WrapEntry.wrapReady
       /\ WrapEntry.sinceReady > ReadyDelay
       /\ hx.initialHelixRef = WrapEntry.initialHelixRef
  /\ hxFrame.refreshed = (IF hx.wrapReady THEN 1 ELSE 0)
  /\ (hx.modelsLoaded /\ ~hx.wrapReady) => hx.initialHelixRef[1].y = StartY

\* a frame wrapped about a reference height the timer had moved off the
\* start height
C25_Witness ==
  /\ Wrapped
  /\ hxFrame.refreshed = 1
  /\ hx.initialHelixRef[1].y # StartY

\* C26 (as claimed): a frame wraps with camera.y at or beyond ref.y + 2 pitch
\* or ref.y - 2 pitch; the wrap takes lastTheta exactly three revolutions
\* along the helix, in the direction that lowers camera.y in the first case
\* and raises it in the second, and leaves camera.y on the helix mapping of
\* the new lastTheta.
C26_WrapAmounts ==
  Wrapped =>
    /\ WrapEntry.y >= upThreshold(WrapEntry) \/ WrapEntry.y <= downThreshold(WrapEntry)
    /\ WrapEntry.y >= upThreshold(WrapEntry) =>
         sign * (hx.lastTheta - WrapEntry.lastTheta) = 0 - 3 * Turn
    /\ WrapEntry.y <= downThreshold(WrapEntry) =>
         sign * (hx.lastTheta - WrapEntry.lastTheta) = 3 * Turn
    /\ hx.y = HelixY(hx.lastTheta, hx.offsetY)

(***************************************************************************)
(* Claims about frames without movement.                                   *)
(***************************************************************************)
InBand(pos) == pos.rad >= rMin /\ pos.rad <= rMax

\* the last event was a processed frame that found Q or E pressed and none of
\* W/A/S/D
ClimbFrame == Processed /\ hxFrame.locked /\ hxFrame.before # <<>>

\* the state that frame started from
FrameStart == hxFrame.before[1]

\* lastTheta and the camera's X and Z are as the frame found them, and
\* camera.y moved by what Q/E added to offsetY
OnlyOffsetMoved ==
  /\ hx.lastTheta = FrameStart.lastTheta
  /\ hx.camera = FrameStart.camera
  /\ hx.y - FrameStart.y = hx.offsetY - FrameStart.offsetY

\* the frames with the pointer lock and no key pressed
NoKeyFrames ==
  { [ isLocked |-> TRUE, target |-> NoTarget, climb |-> 0, dt |-> d ] : d \in Deltas }

\* a frame without any key that finds no wrap due leaves the state as the
\* frame found it (a frame later on the clocks)
NoKeyFrameIdle ==
  (hx.modelsLoaded /\ InBand(hx.camera)) =>
    \A in \in NoKeyFrames :
      \A out \in { updateMovement(Elapse(hx, in.dt), in) } :
        out.branch # "wrap" => out.h = Elapse(hx, in.dt)

OnHelix(h) == h.y = HelixY(h.lastTheta, h.offsetY)

FrameRan == hxFrame.ev \in {"normal", "cooldown", "wrap", "skipped"}

\* C28: a frame without the pointer lock, or before the models are loaded,
\* is left at once whatever keys are pressed: the camera position, lastTheta,
\* offsetY and the time of the last wrap are as the frame found them; until
\* the load completes no frame runs the constraint or a wrap and the camera
\* and the helix state are those of the start.
C28_Gating ==
  /\ (FrameRan /\ ~hxFrame.locked) => hxFrame.ev = "skipped"
  /\ Processed => hx.modelsLoaded
  /\ hxFrame.ev = "skipped" => hx = FrameStart
  /\ ~hx.modelsLoaded =>
       /\ hxFrame.ev \in {"new", "skipped"}
       /\ hx.camera = SceneCreated.camera
       /\ hx.y = SceneCreated.y
       /\ hx.lastTheta = SceneCreated.lastTheta
       /\ hx.offsetY = SceneCreated.offsetY
       /\ hx.initialHelixRef = <<>>

\* a frame without the pointer lock was left at once after the camera had
\* walked and climbed away from the start
C28_Witness ==
  /\ hxFrame.ev = "skipped"
  /\ ~hxFrame.locked
  /\ hx.modelsLoaded
  /\ hx.offsetY # 0
  /\ hx.camera # SceneCreated.camera

(***************************************************************************)
(* Claims about the gesture in progress.                                   *)
(***************************************************************************)
\* the tentative edges of the gesture as the temporary lines record them,
\* from star a to star b
TempLines == cg.tempLinesThisClick

\* the temporary lines and the tentative edges list the same segments, none a
\* self-loop, each starting where the one before ended, the first at the
\* pointer-down star, the drag anchored at the end of the last
ConnectedPath ==
  /\ Len(cg.edgesThisClick) = Len(TempLines)
  /\ \A k \in 1 .. Len(TempLines) :
       /\ TempLines[k].a # TempLines[k].b
       /\ cg.edgesThisClick[k] = _edgeKey(TempLines[k].a, TempLines[k].b)
       /\ TempLines[k].id \in cg.sceneLines
       /\ k = 1 => << TempLines[k].a >> = gesture.downStar
       /\ k > 1 => TempLines[k].a = TempLines[k - 1].b
  /\ (cg.dragging /\ Len(TempLines) > 0) =>
       cg.currentPath = << TempLines[Len(TempLines)].b >>

\* the colliders of a hit list that are not the anchor, by position
OtherThanAnchor(hits, anchor) == { k \in 1 .. Len(hits) : hits[k] # anchor }

\* what one pointer-move sample with the hits `hits` makes of the drag g:
\* g2 is the engine after the sample
MoveSample(g, hits, g2) ==
  LET anchor == g.currentPath[1]
      others == OtherThanAnchor(hits, anchor)
      n == Len(g.edgesThisClick)
  IN IF g.currentPath = <<>> \/ others = {}
       THEN g2 = g
       ELSE LET hit == hits[CHOOSE k \in others : \A m \in others : k <= m]
            IN /\ Len(g2.edgesThisClick) = n + 1
               /\ SubSeq(g2.edgesThisClick, 1, n) = g.edgesThisClick
               /\ g2.edgesThisClick[n + 1] = _edgeKey(anchor, hit)
               /\ Len(g2.tempLinesThisClick) = Len(g.tempLinesThisClick) + 1
               /\ g2.tempLinesThisClick[Len(g2.tempLinesThisClick)].a = anchor
               /\ g2.tempLinesThisClick[Len(g2.tempLinesThisClick)].b = hit
               /\ g2.currentPath = << hit >>
               /\ g2.dragging

\* C29: during a drag a pointer-move sample records at most one tentative
\* edge, from the anchor to the first collider in hit order that is not the
\* anchor, never a self-loop, with a temporary line, and re-anchors the drag
\* at that star; the tentative edges of a gesture form a connected path that
\* starts at the pointer-down star.  The sample is taken in every state of a
\* drag, with every hit list.
C29_OneEdgePerSample ==
  /\ ConnectedPath
  /\ (cg.loaded /\ cg.dragging) =>
       \A hits \in HitLists : MoveSample(cg, hits, _onPointerMove(cg, hits))

\* a drag recorded two edges: down on a star, over a second, on to a third
C29_Witness ==
  /\ cg.dragging
  /\ lastEvent = "move-link"
  /\ Len(TempLines) = 2
  /\ TempLines[2].b # TempLines[1].a

\* C30 (as claimed): whenever no drag is in progress the tentative-edge list,
\* the temporary-line list and the temporarily-linked-star list are empty and
\* no star carries a temporary linked flag.
C30_Ephemeral ==
  (cg.loaded /\ ~cg.dragging) =>
    /\ cg.edgesThisClick = <<>>
    /\ cg.tempLinesThisClick = <<>>
    /\ cg.starsLinkedThisClick = <<>>
    /\ \A i \in DOMAIN cg.stars : ~cg.stars[i].linkedTemp

(***************************************************************************)
(* Claims about the matched edges.                                         *)
(***************************************************************************)
\* C31: no step other than load() removes an edge from MatchedEdges (pointer
\* events, gestures that are dropped and the "Show constellation" button
\* included), and load() leaves MatchedEdges empty whatever state it is
\* called in.
C31_MatchedMonotone ==
  /\ [](\A se \in SampleEdges, sh \in SampleShooting :
          load(cg, NumStars, se, sh).matchedEdges = {})
  /\ [][ IF lastEvent' = "load"
           THEN cg'.matchedEdges = {}
           ELSE cg.matchedEdges \subseteq cg'.matchedEdges ]_cvars

\* C31 witness: the button has dropped every line and the matched edge is
\* still there.
C31_Witness ==
  /\ lastEvent = "show"
  /\ cg.permanentLines = <<>>
  /\ MatchedEdges # {}

\* C32: the key of an edge does not depend on the order of its two stars, so
\* a segment drawn from b to a is recorded under the key of [a,b]; a gesture
\* whose recorded keys are all required is committed under those keys; and a
\* committed gesture whose edges were all matched before it began leaves
\* MatchedEdges as it was.
C32_Unordered ==
  /\ \A a, b \in Stars : a # b => _edgeKey(a, b) = _edgeKey(b, a)
  /\ \A k \in 1 .. Len(TempLines) :
       /\ k <= Len(cg.edgesThisClick)
       /\ cg.edgesThisClick[k] = _edgeKey(TempLines[k].b, TempLines[k].a)
       /\ (_edgeKey(TempLines[k].a, TempLines[k].b) \in RequiredEdges)
            <=> (cg.edgesThisClick[k] \in RequiredEdges)
  /\ (lastEvent = "up" /\ AllRequired(gesture.edges, RequiredEdges)) =>
       /\ Range(gesture.edges) \subseteq MatchedEdges
       /\ Range(gesture.edges) \subseteq gesture.matched =>
            MatchedEdges = gesture.matched

\* C32 witness: a line drawn from the higher to the lower index is permanent
\* and its edge is matched, and the gesture that ended last repeated an edge
\* that was matched already.
C32_Witness ==
  /\ lastEvent = "up"
  /\ \E k \in 1 .. Len(cg.permanentLines) :
       /\ cg.permanentLines[k].a > cg.permanentLines[k].b
       /\ _edgeKey(cg.permanentLines[k].a, cg.permanentLines[k].b) \in MatchedEdges
  /\ gesture.edges # <<>>
  /\ Range(gesture.edges) \subseteq gesture.matched
  /\ Len(cg.permanentLines) = 2

(***************************************************************************)
(* Claims about what a level keeps once gestures have ended.               *)
(***************************************************************************)
\* the permanent lines that are in the scene and join the two stars of e
BackingLines(e) ==
  { k \in 1 .. Len(cg.permanentLines) :
      /\ cg.permanentLines[k].id \in cg.sceneLines
      /\ _edgeKey(cg.permanentLines[k].a, cg.permanentLines[k].b) = e }

\* C37 (as claimed): in every reachable state each matched edge is backed by
\* a permanent line in the scene and both of its stars are linked, also after
\* the "Show constellation" button has dropped the lines.
C37_CommittedConsistent ==
  \A e \in MatchedEdges :
    /\ BackingLines(e) # {}
    /\ e[1] \in LinkedStars(cg)
    /\ e[2] \in LinkedStars(cg)

\* C38 (as claimed): within one load of a level the completion callback is
\* invoked at most once, whatever gestures follow the completing commit.
C38_CompleteOnce == cg.onCompleteCalls <= 1

\* the lines of the scene that are not in the permanent-line list
StrayLines ==
  cg.sceneLines \ { cg.permanentLines[k].id : k \in 1 .. Len(cg.permanentLines) }

\* C39 (as claimed): once the engine is idle every temporary line that was
\* added to the scene has been removed from it or is a permanent line, and
\* no star carries the temporary linked flag, for every interleaving of
\* pointer events.
C39_NoOrphans ==
  (cg.loaded /\ ~cg.dragging) =>
    /\ StrayLines = {}
    /\ TempLinkedStars(cg) = {}

(***************************************************************************)
(* Claims about the keys of the puzzle.                                    *)
(***************************************************************************)
ArrowKeys == { "ArrowUp", "ArrowDown", "ArrowLeft", "ArrowRight" }

\* the move an arrow names, and the opposite of a move
PlainMove(code) ==
  IF code = "ArrowUp" THEN "U"
  ELSE IF code = "ArrowDown" THEN "D"
  ELSE IF code = "ArrowLeft" THEN "L"
  ELSE "R"

Opposite(d) ==
  IF d = "U" THEN "D" ELSE IF d = "D" THEN "U" ELSE IF d = "L" THEN "R" ELSE "L"

\* the move the claim gives an arrow under the inversion flag
ClaimedMove(code, inv) == IF inv THEN Opposite(PlainMove(code)) ELSE PlainMove(code)

\* the slide or quiver an arrow key starts on the idle puzzle p is the one of
\* the move d
StartsMove(p, q, d) ==
  LET blank == BlankCell(p.board)
  IN /\ Len(q.anims) = Len(p.anims) + 1
     /\ IF Inside(Offset(blank, d))
          THEN /\ q.anims[Len(q.anims)].kind = "slide"
               /\ q.anims[Len(q.anims)].dir = d
          ELSE q.anims[Len(q.anims)].kind = "quiver"

TileNeighbours(board) ==
  { x \in Cells :
      /\ board[x.r][x.c] # 0
      /\ \E d \in Dirs : x = Offset(BlankCell(board), d) }

\* the cells the chain of the claim allows for the attempted move d
ChainTargets(board, d) ==
  LET blank == BlankCell(board)
      tiles == TileNeighbours(board)
  IN IF Offset(blank, d) \in tiles THEN { Offset(blank, d) }
     ELSE IF Offset(blank, Opposite(d)) \in tiles THEN { Offset(blank, Opposite(d)) }
     ELSE { x \in tiles : x.r = blank.r \/ x.c = blank.c }

\* the quiver in flight, if any, moves the mesh recorded at cell x
Quivers(p, x) ==
  /\ Len(p.anims) > 0
  /\ p.anims[Len(p.anims)].kind = "quiver"
  /\ p.anims[Len(p.anims)].mesh = p.tileMeshes[x.r][x.c]

\* C34: on an illegal move the tile that quivers is chosen by the chain
\* attempted direction, else opposite direction, else an orthogonal
\* neighbour; it is a neighbour of the blank that holds a tile; and on every
\* board reached a target exists.
C34_QuiverTarget ==
  pz.inited =>
    \A d \in Dirs :
      ~Inside(Offset(BlankCell(pz.board), d)) =>
        LET q == QuiverTarget(pz.board, BlankCell(pz.board), d)
        IN /\ q # <<>>
           /\ q[1] \in ChainTargets(pz.board, d)
           /\ q[1] \in TileNeighbours(pz.board)
           /\ (pz.active /\ ~pz.animating) =>
                \A code \in { c \in ArrowKeys : DirOfKey(c, pz.controlsInverted) = d } :
                  \A p2 \in _slidePuzzle_keyHandler(pz, code) :
                    p2.animating /\ Quivers(p2, q[1])

\* C34 witness: an arrow key has started a quiver with the blank in the top
\* left corner, and the quivering mesh is the tile below or right of it.
C34_Witness ==
  /\ pz.inited
  /\ pzEvent = "arrow"
  /\ BlankCell(pz.board) = [ r |-> 0, c |-> 0 ]
  /\ pz.animating
  /\ \E x \in TileNeighbours(pz.board) : Quivers(pz, x)

(***************************************************************************)
(* Claims about hide().                                                    *)
(***************************************************************************)
\* every tile is tracked at the cell of the board that holds its value
TilesInPlace(p) ==
  \A x \in Cells : p.board[x.r][x.c] # 0 => p.tileMeshes[x.r][x.c] = p.board[x.r][x.c]

\* C35: hide() called twice in a row leaves the state of one call; called
\* while a slide is in flight it leaves the slide, the board and the lock as
\* they are, and the slide then completes as it would have without hide():
\* it applies its one legal move, and the board is a permutation with every
\* tile tracked at its cell.
C35_HideSafe ==
  /\ hide(hide(pz)) = hide(pz)
  /\ (pz.inited /\ Len(pz.anims) > 0 /\ pz.anims[1].kind = "slide") =>
       /\ hide(pz).anims = pz.anims
       /\ hide(pz).animating = pz.animating
       /\ hide(pz).board = pz.board
       /\ hide(pz).tileMeshes = pz.tileMeshes
       /\ LET done == AnimationDone(hide(pz), 1)
          IN /\ done.board = AnimationDone(pz, 1).board
             /\ done.board \in LegalSlides(pz.board)
             /\ done.board = _applyMove(pz.board, pz.anims[1].dir).board
             /\ done.moves = pz.moves
             /\ IsPermutation(done.board)
             /\ TilesInPlace(done)
             /\ \A k \in 1 .. Len(done.anims) : done.anims[k].kind = "fade"

\* C35 witness: a slide has completed on the puzzle that hide() had
\* deactivated while the slide was in flight, and the board is not solved.
C35_Witness ==
  /\ pz.inited
  /\ pzEvent = "slide"
  /\ ~pz.active
  /\ ~pz.puzzleSolved
  /\ pz.puzzleState = "loaded"
  /\ Len(pz.anims) = 0
  /\ ~pz.animating

(***************************************************************************)
(* Claims about the input lock.                                            *)
(***************************************************************************)
\* C36: while the frame callbacks keep being served, whenever the animating
\* flag is set (by a quiver, a slide or the fade of the final tile) an
\* animation is in flight whose completion clears it, and the flag is
\* eventually clear again, also when hide() or show() runs meanwhile.
C36_LockLiveness ==
  /\ [](pz.animating => Len(pz.anims) > 0)
  /\ (pz.animating ~> ~pz.animating)

\* C36 witness: a quiver has ended and released the lock on the puzzle that
\* hide() had deactivated while the quiver was in flight.
C36_Witness ==
  /\ pz.inited
  /\ pzEvent = "quiver"
  /\ ~pz.active
  /\ ~pz.animating
  /\ Len(pz.anims) = 0

(***************************************************************************)
(* Claims about the tracking grid of the tiles.                            *)
(***************************************************************************)
\* A mesh is named by the slice of the image its material was built with
\* (the value v for textures[v-1], 0 for the transparent placeholder); no
\* code assigns a material or a texture to a mesh after it is built.

\* no tile animation is in flight
Settled(p) == Len(p.anims) = 0

\* C40 (as claimed): whenever no animation is in flight, every cell of the
\* tracking grid holds the mesh of the value at that cell of the board, the
\* blank placeholder at the 0 cell.
C40_AsClaimed ==
  (pz.inited /\ Settled(pz)) =>
    \A x \in Cells : pz.tileMeshes[x.r][x.c] = pz.board[x.r][x.c]

\* C40 (amended): whenever no animation is in flight, every cell that holds
\* a tile value holds the mesh built with the slice of that value;
\* the 0 cell holds the blank placeholder or, once the fade of the solved
\* flow has run, the mesh of the final tile placed over it.
C40_TilesMirrorBoard ==
  (pz.inited /\ Settled(pz)) =>
    \A x \in Cells :
      IF pz.board[x.r][x.c] # 0
        THEN pz.tileMeshes[x.r][x.c] = pz.board[x.r][x.c]
        ELSE \/ pz.tileMeshes[x.r][x.c] = 0
             \/ pz.tileMeshes[x.r][x.c] = FinalMesh /\ pz.puzzleSolved

\* C40 witness: the puzzle was solved, shown again and a slide has moved a
\* tile; the final tile's mesh is tracked at the 0 cell, away from the corner.
C40_Witness ==
  /\ pz.inited
  /\ Settled(pz)
  /\ pzEvent = "slide"
  /\ pz.puzzleSolved
  /\ pz.board # SolvedBoard
  /\ pz.tileMeshes[BlankCell(pz.board).r][BlankCell(pz.board).c] = FinalMesh

====
